---- MODULE Spec2Model ----
(***************************************************************************)
(* A model of rygit: the object store, the staging index, the commit      *)
(* engine, the status engine and branch switching, as one state machine   *)
(* over the files of a repository.                                        *)
(*                                                                         *)
(* A path is the sequence of its components below the repository root; a  *)
(* component is a one-byte name, written as its byte value (97 = "a").     *)
(* A file's contents are a sequence of bytes.  The metadata directory is   *)
(* kept apart from the working directory: HEAD, the ref files, the index   *)
(* file and the object store are variables of their own.                   *)
(***************************************************************************)
EXTENDS Integers, Sequences, FiniteSets, TLC

VARIABLES
    work,     \* working directory: file path -> contents, for the files on disk
    dirs,     \* working directory: the directories on disk (the root excluded)
    index,    \* .rygit/index: the lines of the file, each <<relative path, hex hash>>
    objects,  \* .rygit/objects: hash -> the compressed bytes stored under it
    refs,     \* .rygit/refs/heads: branch name -> contents of its ref file
    HEAD,     \* .rygit/HEAD: <<"ref: refs/heads/", branch name>>
    steps,    \* operations run so far
    last,     \* the last operation run: its input, its result, what it read
    inflight  \* the invocations that run at the same time: where each one is
              \* and what it holds in memory

vars == <<work, dirs, index, objects, refs, HEAD, steps, last, inflight>>

----------------------------------------------------------------------------
(* Bounds of the model.                                                    *)

\* operations (edits and commands) run in one behaviour
MaxSteps == 6

\* the file paths and directories the user works with: a, d/c and d
Paths == {<<97>>, <<100, 99>>}
Dirs == {<<100>>}

\* what the user writes into a file: "a", and the single byte 0xE9
Contents == {<<97>>, <<233>>}

BranchNames == {"master", "feature"}
Messages == {<<109>>}

\* the clock readings a command may sign with
Times == {0}

----------------------------------------------------------------------------
(* Paths.                                                                  *)

Root == <<>>

FileName(p) == p[Len(p)]

StartsWith(p, d) == Len(d) <= Len(p) /\ SubSeq(p, 1, Len(d)) = d

\* Path ordering: component by component, a proper prefix first
RECURSIVE PathLess(_, _)
PathLess(p, q) ==
    IF p = <<>> THEN q # <<>>
    ELSE IF q = <<>> THEN FALSE
    ELSE IF p[1] # q[1] THEN p[1] < q[1]
    ELSE PathLess(Tail(p), Tail(q))

\* the metadata directory .rygit and the file HEAD in it; the two names are
\* written as one character each like the names in the working directory
RygitName == 46
HeadName == 72

rygit_path == <<RygitName>>

head_path == <<RygitName, HeadName>>

\* what init has put on disk, as far as a command may be pointed at it
MetadataFiles == IF HEAD = <<>> THEN {} ELSE {head_path}
MetadataDirs == IF HEAD = <<>> THEN {} ELSE {rygit_path}

IsFile(p) == p \in DOMAIN work \/ p \in MetadataFiles

IsDir(p) == p = Root \/ p \in dirs \/ p \in MetadataDirs

Exists(p) == IsFile(p) \/ IsDir(p)

\* the bytes of a branch name
BranchNameBytes(name) ==
    IF name = "master" THEN <<109, 97, 115, 116, 101, 114>>
    ELSE <<102, 101, 97, 116, 117, 114, 101>>

\* the bytes of .rygit/HEAD: "ref: refs/heads/<name>"
HeadFileBytes ==
    <<114, 101, 102, 58, 32, 114, 101, 102, 115, 47, 104, 101, 97, 100, 115, 47>>
        \o BranchNameBytes(HEAD[2])

\* the bytes of the file at path p
ReadFile(p) == IF p = head_path THEN HeadFileBytes ELSE work[p]

\* WalkDir::new(d).min_depth(1) with filter_entry: everything below d, the
\* metadata directory and what is in it left out
WalkDir(d) ==
    {p \in DOMAIN work \cup dirs \cup MetadataFiles \cup MetadataDirs :
        p # d /\ StartsWith(p, d) /\ ~StartsWith(p, rygit_path)}

\* the directories above p, the root excluded
Ancestors(p) == {SubSeq(p, 1, n) : n \in 1..(Len(p) - 1)}

----------------------------------------------------------------------------
(* Sorting: Vec::sort_by is a stable sort.                                 *)

RECURSIVE InsertByPath(_, _)
InsertByPath(x, s) ==
    IF s = <<>> THEN <<x>>
    ELSE IF PathLess(x.path, s[1].path) THEN <<x>> \o s
    ELSE <<s[1]>> \o InsertByPath(x, Tail(s))

\* a sort that leaves the entries in the order they were added
SortByPathNone(s) == s

RECURSIVE SortByPath(_)
SortByPath(s) ==
    CHOOSE sorted \in
        {IF v = <<>> THEN <<>>
         ELSE CHOOSE inserted \in
                 {InsertByPath(v[Len(v)], rest) :
                     rest \in {SortByPath(SubSeq(v, 1, Len(v) - 1))}} : TRUE :
            v \in {s}} : TRUE

RECURSIVE InsertByName(_, _)
InsertByName(x, s) ==
    IF s = <<>> THEN <<x>>
    ELSE IF x.name < s[1].name THEN <<x>> \o s
    ELSE <<s[1]>> \o InsertByName(x, Tail(s))

\* entries left in the order the directory was read in
SortByNameNone(s) == s

RECURSIVE SortByName(_)
SortByName(s) ==
    CHOOSE sorted \in
        {IF v = <<>> THEN <<>>
         ELSE CHOOSE inserted \in
                 {InsertByName(v[Len(v)], rest) :
                     rest \in {SortByName(SubSeq(v, 1, Len(v) - 1))}} : TRUE :
            v \in {s}} : TRUE

\* a set of paths as a sequence, in path order
RECURSIVE PathSeq(_)
PathSeq(S) ==
    CHOOSE seq \in
        {IF T = {} THEN <<>>
         ELSE CHOOSE rest \in
                 {<<m>> \o PathSeq(T \ {m}) :
                     m \in {CHOOSE x \in T : \A y \in T : y = x \/ PathLess(x, y)}} : TRUE :
            T \in {S}} : TRUE

Range(s) == {s[i] : i \in DOMAIN s}

----------------------------------------------------------------------------
(* Digest, codec and the object store.                                     *)

\* Hash::of: SHA-1 of the serialised bytes, taken to be free of collisions
HashOf(data) == [sha1 |-> data]

\* Hash::to_hex / Hash::from_hex: the text of a ref file or index line
ToHex(hash) == [hex |-> hash]

FromHex(text) == text.hex

compress(data) == [zlib |-> data]

decompress(bytes) == bytes.zlib

\* an object that is hashed and never stored
WriteIfAbsentNever(store, hash, data) == store

\* the file is written when no object file exists at the hash's path
WriteIfAbsent(store, hash, data) ==
    IF hash \in DOMAIN store THEN store
    ELSE [h \in DOMAIN store \cup {hash} |->
            IF h = hash THEN compress(data) ELSE store[h]]

\* the file is created, truncating one that exists, and nothing is written
WriteAlwaysEmpty(store, hash, data) ==
    [h \in DOMAIN store \cup {hash} |->
        IF h = hash THEN compress(<<>>) ELSE store[h]]

\* File::create + write_all: the file is truncated and written
WriteAlways(store, hash, data) ==
    [h \in DOMAIN store \cup {hash} |->
        IF h = hash THEN compress(data) ELSE store[h]]

RECURSIVE WriteAll(_, _)
WriteAll(store, datas) ==
    IF datas = <<>> THEN store
    ELSE WriteAll(WriteIfAbsent(store, HashOf(datas[1]), datas[1]), Tail(datas))

\* "blob <len>\0<contents>"
BlobSerialize(contents) == [blob |-> contents, len |-> Len(contents)]

\* the blob hash of the file at path p
BlobHashFor(p) == HashOf(BlobSerialize(ReadFile(p)))

----------------------------------------------------------------------------
(* The staging index.                                                      *)

\* Index::load: one IndexFile per line
IndexLoad(lines) ==
    [i \in DOMAIN lines |-> [path |-> lines[i][1], hash |-> FromHex(lines[i][2])]]

\* Index::write: the file is truncated and one line is written per entry
IndexWrite(files) ==
    [i \in DOMAIN files |-> <<files[i].path, ToHex(files[i].hash)>>]

\* position of the first entry for path p, 0 when there is none
Position(files, p) ==
    IF \E i \in DOMAIN files : files[i].path = p
    THEN CHOOSE i \in DOMAIN files :
            files[i].path = p /\ \A j \in 1..(i - 1) : files[j].path # p
    ELSE 0

RemoveAt(s, i) == SubSeq(s, 1, i - 1) \o SubSeq(s, i + 1, Len(s))

\* add_file that pushes a new entry without looking for an old one
add_file_push(files, p) ==
    LET pos == Position(files, p) IN
    IF ~Exists(p)
    THEN IF pos # 0
         THEN [ok |-> TRUE, files |-> RemoveAt(files, pos), blobs |-> <<>>]
         ELSE [ok |-> FALSE, files |-> files, blobs |-> <<>>]
    ELSE [ok |-> TRUE,
          files |-> Append(files, [path |-> p, hash |-> BlobHashFor(p)]),
          blobs |-> <<BlobSerialize(ReadFile(p))>>]

\* add_file that takes a path missing from disk and index for a success
add_file_ignore_missing(files, p) ==
    LET pos == Position(files, p) IN
    IF ~Exists(p)
    THEN [ok |-> TRUE, files |-> IF pos # 0 THEN RemoveAt(files, pos) ELSE files,
          blobs |-> <<>>]
    ELSE LET index_file == [path |-> p, hash |-> BlobHashFor(p)] IN
         [ok |-> TRUE,
          files |-> IF pos # 0 THEN [files EXCEPT ![pos] = index_file]
                    ELSE Append(files, index_file),
          blobs |-> <<BlobSerialize(ReadFile(p))>>]

\* Index::add_file: [ok, files, blobs], blobs the serialised blobs created
add_file(files, p) ==
    LET pos == Position(files, p) IN
    IF ~Exists(p)
    THEN IF pos # 0
         THEN [ok |-> TRUE, files |-> RemoveAt(files, pos), blobs |-> <<>>]
         ELSE [ok |-> FALSE, files |-> files, blobs |-> <<>>]
    ELSE LET index_file == [path |-> p, hash |-> BlobHashFor(p)] IN
         [ok |-> TRUE,
          files |-> IF pos # 0 THEN [files EXCEPT ![pos] = index_file]
                    ELSE Append(files, index_file),
          blobs |-> <<BlobSerialize(ReadFile(p))>>]

\* WalkDir below a directory, the metadata directory filtered out: the files
WalkFiles(d) == PathSeq({p \in WalkDir(d) : IsFile(p)})

RECURSIVE add_files(_, _)
add_files(acc, ps) ==
    IF ps = <<>> THEN acc
    ELSE CHOOSE added \in
            {add_files(next, Tail(ps)) :
                next \in {CHOOSE one \in
                             {[ok |-> acc.ok /\ r.ok, files |-> r.files,
                               blobs |-> acc.blobs \o r.blobs] :
                                 r \in {add_file(acc.files, ps[1])}} : TRUE}} : TRUE

\* Index::add_dir: every file below d goes through add_file
add_dir(files, d) ==
    CHOOSE added \in
        {add_files([ok |-> TRUE, files |-> files, blobs |-> <<>>], ps) :
            ps \in {WalkFiles(d)}} : TRUE

add_recursive(files, p) ==
    IF IsDir(p) THEN add_dir(files, p) ELSE add_file(files, p)

\* Index::remove_deleted_files: entries below d that are no longer on disk go
remove_deleted_files(files, d) ==
    SelectSeq(files, LAMBDA f : ~StartsWith(f.path, d) \/ Exists(f.path))

\* Index::add: [ok, files, blobs]; the index file is rewritten only when ok
IndexAdd(files, p) ==
    CHOOSE added \in
        {IF ~r.ok THEN r
         ELSE [ok |-> TRUE,
               files |-> SortByPath(IF IsDir(p) THEN remove_deleted_files(r.files, p)
                                    ELSE r.files),
               blobs |-> r.blobs] :
            r \in {CHOOSE one \in {add_recursive(loaded, p) : loaded \in {files}} : TRUE}}
        : TRUE

----------------------------------------------------------------------------
(* Blobs as read back from the store.                                      *)

\* Blob::load: the object file must exist and hold a blob
BlobLoad(store, hash) ==
    IF hash \notin DOMAIN store THEN [ok |-> FALSE]
    ELSE IF "blob" \notin DOMAIN decompress(store[hash]) THEN [ok |-> FALSE]
    ELSE [ok |-> TRUE, blob |-> [hash |-> hash]]

\* Blob::body: the decompressed bytes after the header
BlobBody(store, blob) == decompress(store[blob.hash]).blob

----------------------------------------------------------------------------
(* Trees.                                                                  *)

\* the text of an object body is a sequence of tokens: a character [c |-> n],
\* or one of the fixed-format fields the code formats and parses as a whole
NL == [c |-> 10]
NUL == [c |-> 0]
CR == [c |-> 13]
SP == [c |-> 32]

Chars(s) == [i \in DOMAIN s |-> [c |-> s[i]]]
Unchars(text) == [i \in DOMAIN text |-> text[i].c]

\* str::split(sep): the pieces between the separators, at least one piece
SplitAt(text, sep) ==
    LET at == {i \in DOMAIN text : text[i] = sep}
        \* the place of the k-th separator, the two ends counting as separators
        Nth(k) == IF k = 0 THEN 0
                  ELSE IF k > Cardinality(at) THEN Len(text) + 1
                  ELSE CHOOSE p \in at : Cardinality({q \in at : q <= p}) = k
    IN [k \in 1..(Cardinality(at) + 1) |-> SubSeq(text, Nth(k - 1) + 1, Nth(k) - 1)]

\* (the text is evaluated once, as a bound value)
Split(text, sep) == CHOOSE pieces \in {SplitAt(t, sep) : t \in {text}} : TRUE

\* [String]::join(sep)
RECURSIVE Join(_, _)
Join(pieces, sep) ==
    CHOOSE joined \in
        {IF v = <<>> THEN <<>>
         ELSE IF Len(v) = 1 THEN v[1]
         ELSE v[1] \o <<sep>> \o Join(Tail(v), sep) : v \in {pieces}} : TRUE

RECURSIVE Concat(_)
Concat(ss) ==
    CHOOSE joined \in
        {IF v = <<>> THEN <<>> ELSE v[1] \o Concat(Tail(v)) : v \in {ss}} : TRUE

\* the UTF-8 encoding of one character below U+0800: String::as_bytes, and
\* a u8 taken as a char and collected into a String
CharBytes(c) == IF c < 128 THEN <<c>> ELSE <<192 + (c \div 64), 128 + (c % 64)>>

\* a name is held as a number: one character is its code point, more
\* characters are digits to the base 2048
RECURSIVE NameOf(_)
NameOf(chars) ==
    IF chars = <<>> THEN 0
    ELSE NameOf(SubSeq(chars, 1, Len(chars) - 1)) * 2048 + chars[Len(chars)]

\* Iterator::take_while on the shared iterator: what comes before the first
\* separator is taken, the separator is consumed, the rest stays
Before(text, sep) == Split(text, sep)[1]
After(text, sep) ==
    CHOOSE rest \in {SubSeq(t, Len(Split(t, sep)[1]) + 2, Len(t)) : t \in {text}} : TRUE

ModeFile == "100644"
ModeDirectory == "40000"

\* bytes of one token: a mode, a whole hash, the first bytes of a hash, or
\* one character
ByteLen(token) ==
    IF "mode" \in DOMAIN token THEN (IF token.mode = ModeDirectory THEN 5 ELSE 6)
    ELSE IF "hash" \in DOMAIN token THEN 20
    ELSE IF "short" \in DOMAIN token THEN token.short
    ELSE 1

RECURSIVE SumLen(_)
SumLen(ns) ==
    CHOOSE sum \in {IF v = <<>> THEN 0 ELSE v[1] + SumLen(Tail(v)) : v \in {ns}} : TRUE

BodyLen(body) ==
    CHOOSE n \in {SumLen(lens) : lens \in {[i \in DOMAIN body |-> ByteLen(body[i])]}} : TRUE

\* "<mode> <name>\0<20-byte hash>" per entry, behind "tree <len>\0"
serialize(entries) ==
    CHOOSE serialized_data \in
        {[tree |-> body, len |-> BodyLen(body)] :
            body \in {Concat([i \in DOMAIN entries |->
                         <<[mode |-> entries[i].mode], SP>> \o
                         Chars(CharBytes(entries[i].name)) \o
                         <<NUL, [hash |-> entries[i].hash]>>])}} : TRUE

\* the end of Tree::create_recursive: the entries created are sorted by name,
\* serialised and hashed
SortedTree(created) ==
    CHOOSE tree \in
        {CHOOSE sorted \in
            {[entries |-> entries, serialized_data |-> serialized_data,
              hash |-> HashOf(serialized_data)] :
                serialized_data \in {serialize(entries)}} : TRUE :
            entries \in {SortByName(created)}} : TRUE

\* the entries directly inside directory d of the working directory
DirectoryContents(d) ==
    PathSeq({p \in WalkDir(d) : Len(p) = Len(d) + 1})

\* Tree::create_recursive and TreeEntry::create: the tree of directory d, built
\* from the directory as it is on disk; written lists the objects created
RECURSIVE create_recursive(_)
TreeEntryCreate(p) ==
    IF IsDir(p)
    THEN CHOOSE entry \in
            {[name |-> FileName(p), mode |-> ModeDirectory,
              hash |-> directory_tree.hash, written |-> directory_tree.written] :
                directory_tree \in {create_recursive(p)}} : TRUE
    ELSE [name |-> FileName(p), mode |-> ModeFile, hash |-> BlobHashFor(p),
          written |-> <<BlobSerialize(ReadFile(p))>>]

create_recursive(d) ==
    CHOOSE created \in
        {CHOOSE result \in
            {[hash |-> tree.hash,
              written |-> Concat([i \in DOMAIN tree.entries |-> tree.entries[i].written])
                            \o <<tree.serialized_data>>] :
                tree \in {SortedTree([i \in DOMAIN contents |->
                                        TreeEntryCreate(contents[i])])}} : TRUE :
            contents \in {DirectoryContents(d)}} : TRUE

\* Tree::create(index): the index is not consulted
TreeCreate(files) == create_recursive(Root)

\* Tree::load, parse_header and TreeEntry::parse. A failure is an error
\* value, [ok |-> FALSE]; a panic carries the field panic. Every child is
\* loaded before the tree is
RECURSIVE TreeLoad(_, _)
RECURSIVE ParseEntries(_, _)

\* the name parsed: every byte is taken as one character
ParsedName(name) == NameOf(Unchars(name))

\* the rest of TreeEntry::parse once mode and name are taken: the 20 bytes
\* behind the name are unwrapped into a hash and the object is loaded
ParseNamed(store, mode, name, after_name) ==
    IF ~(Len(mode) = 1 /\ "mode" \in DOMAIN mode[1]
           /\ mode[1].mode \in {ModeFile, ModeDirectory})
    THEN [ok |-> FALSE]
    ELSE IF BodyLen(after_name) < 20 THEN [ok |-> FALSE, panic |-> TRUE]
    ELSE IF "hash" \notin DOMAIN after_name[1] THEN [ok |-> FALSE]
    ELSE CHOOSE parsed \in
            {IF ~loaded.ok THEN loaded
             ELSE [ok |-> TRUE, rest |-> Tail(after_name),
                   entry |-> [name |-> ParsedName(name),
                              object |-> IF mode[1].mode = ModeFile
                                         THEN [Blob |-> loaded.blob]
                                         ELSE [Tree |-> loaded.tree]]] :
                loaded \in {IF mode[1].mode = ModeFile
                            THEN BlobLoad(store, after_name[1].hash)
                            ELSE TreeLoad(store, after_name[1].hash)}} : TRUE

\* TreeEntry::parse: [ok, entry, rest]; mode and name are each taken once
\* from the shared iterator
TreeEntryParse(store, data) ==
    CHOOSE parsed \in
        {CHOOSE entry \in
            {ParseNamed(store, mode, name, after_name) :
                name \in {Before(after_mode, NUL)},
                after_name \in {After(after_mode, NUL)}} : TRUE :
            mode \in {Before(data, SP)}, after_mode \in {After(data, SP)}} : TRUE

ParseEntries(store, data) ==
    IF data = <<>> THEN [ok |-> TRUE, entries |-> <<>>]
    ELSE CHOOSE parsed \in
            {IF ~first.ok THEN first
             ELSE CHOOSE entries \in
                     {IF ~rest.ok THEN rest
                      ELSE [ok |-> TRUE, entries |-> <<first.entry>> \o rest.entries] :
                         rest \in {ParseEntries(store, first.rest)}} : TRUE :
                first \in {TreeEntryParse(store, data)}} : TRUE

\* Tree::load once the object file is read and decompressed
TreeLoadData(store, serialized_data) ==
    IF "tree" \notin DOMAIN serialized_data THEN [ok |-> FALSE]
    ELSE CHOOSE loaded \in
            {IF ~parsed.ok THEN parsed
             ELSE [ok |-> TRUE,
                   tree |-> [hash |-> HashOf(serialized_data),
                             entries |-> parsed.entries]] :
                parsed \in {ParseEntries(store, serialized_data.tree)}} : TRUE

\* Tree::load: the object file must exist
TreeLoad(store, hash) ==
    CHOOSE loaded \in
        {IF h \notin DOMAIN st THEN [ok |-> FALSE]
         ELSE TreeLoadData(st, decompress(st[h])) : st \in {store}, h \in {hash}} : TRUE

\* HashMap::extend: the entries of g replace those of f
Extend(f, g) ==
    [p \in DOMAIN f \cup DOMAIN g |-> IF p \in DOMAIN g THEN g[p] ELSE f[p]]

\* Tree::entries_flattened_recursive: path -> blob hash
RECURSIVE entries_flattened_recursive(_, _)
entries_flattened_recursive(entries, base_path) ==
    IF entries = <<>> THEN <<>>
    ELSE LET entry == entries[1]
             full_path == Append(base_path, entry.name)
             collected == IF "Blob" \in DOMAIN entry.object
                          THEN [p \in {full_path} |-> entry.object.Blob.hash]
                          ELSE entries_flattened_recursive(entry.object.Tree.entries, full_path)
         IN Extend(collected, entries_flattened_recursive(Tail(entries), base_path))

entries_flattened(tree) == entries_flattened_recursive(tree.entries, Root)

----------------------------------------------------------------------------
(* HEAD and refs.                                                          *)

\* paths::head_ref_path: the branch whose ref file HEAD names
head_ref_path == HEAD[2]

\* a Signature; the command line always signs as the same user, here "L S"
Signature(t) == [name |-> <<76, 32, 83>>, email |-> "lsellers@test.com", timestamp |-> t]

\* str::lines: split at line feeds, a final empty line is not a line, and a
\* carriage return just before a line feed is not part of the line
LinesOf(pieces) ==
    LET kept == IF pieces[Len(pieces)] = <<>> THEN SubSeq(pieces, 1, Len(pieces) - 1)
                ELSE pieces
    IN [i \in DOMAIN kept |->
           IF i < Len(pieces) /\ kept[i] # <<>> /\ kept[i][Len(kept[i])] = CR
           THEN SubSeq(kept[i], 1, Len(kept[i]) - 1) ELSE kept[i]]

Lines(text) == CHOOSE lines \in {LinesOf(pieces) : pieces \in {Split(text, NL)}} : TRUE

\* str::split_whitespace: the non-empty runs between spaces
split_whitespace(text) == SelectSeq(Split(text, SP), LAMBDA w : w # <<>>)

\* Signature::serialize_as: "<kind> <name> <<email>> <timestamp> <offset>"
serialize_as(kind, sig) ==
    <<[kind |-> kind], SP>> \o Chars(sig.name) \o
    <<SP, [email |-> sig.email], SP, [timestamp |-> sig.timestamp]>>

\* Signature::deserialize: the words after the kind up to the one in angle
\* brackets are the name, joined by single spaces
DeserializeParts(parts) ==
    LET IsEmail(w) == "email" \in DOMAIN w[1]
        emails == {i \in 2..Len(parts) : IsEmail(parts[i])}
    IN IF parts = <<>> \/ emails = {} THEN [ok |-> FALSE]
       ELSE LET e == CHOOSE i \in emails : \A k \in emails : i <= k
                name == Join(SubSeq(parts, 2, e - 1), SP)
            IN IF name = <<>> THEN [ok |-> FALSE]
               ELSE IF Len(parts) <= e THEN [ok |-> FALSE]
               ELSE IF "timestamp" \notin DOMAIN parts[e + 1][1] THEN [ok |-> FALSE]
               ELSE [ok |-> TRUE,
                     sig |-> [name |-> Unchars(name), email |-> parts[e][1].email,
                              timestamp |-> parts[e + 1][1].timestamp]]

SignatureDeserialize(line) ==
    CHOOSE result \in {DeserializeParts(parts) : parts \in {split_whitespace(line)}} : TRUE


----------------------------------------------------------------------------
(* Commits.                                                                *)

\* Commit::serialize: the lines joined by line feeds behind the header
\* "commit <length>" and a NUL
CommitSerialize(author, committer, parent_hashes, tree_hash, message) ==
    CHOOSE serialized_data \in
        {CHOOSE joined \in
            {[commit |-> serialized_body, len |-> Len(serialized_body)] :
                serialized_body \in {Join(lines, NL)}} : TRUE :
            lines \in {<< <<[tree |-> ToHex(tree_hash)]>> >> \o
                       [i \in DOMAIN parent_hashes |->
                           <<[parent |-> ToHex(parent_hashes[i])]>>] \o
                       <<serialize_as("author", author),
                         serialize_as("committer", committer),
                         <<>>, Chars(message)>>}} : TRUE

\* line i exists and starts with the label
IsLine(body_lines, i, label) ==
    /\ i <= Len(body_lines)
    /\ body_lines[i] # <<>>
    /\ label \in DOMAIN body_lines[i][1]

\* the lines behind the tree line that name a parent
ParentLines(body_lines) ==
    CHOOSE n \in 0..Len(body_lines) :
        /\ \A i \in 2..(n + 1) : IsLine(body_lines, i, "parent")
        /\ ~IsLine(body_lines, n + 2, "parent")

\* the tree line, n parent lines, then the two signatures and the message
DeserializeSigned(serialized_data, body_lines, n) ==
    IF ~IsLine(body_lines, 1, "tree") \/ Len(body_lines) < n + 4 THEN [ok |-> FALSE]
    ELSE CHOOSE result \in
            {IF ~author.ok \/ ~committer.ok THEN [ok |-> FALSE]
             ELSE [ok |-> TRUE,
                   commit |-> [hash |-> HashOf(serialized_data),
                               tree_hash |-> FromHex(body_lines[1][1].tree),
                               parent_hashes |-> [i \in 1..n |->
                                   FromHex(body_lines[i + 1][1].parent)],
                               author |-> author.sig, committer |-> committer.sig,
                               message |-> Unchars(Join(SubSeq(body_lines, n + 5,
                                               Len(body_lines)), NL))]] :
                author \in {SignatureDeserialize(body_lines[n + 2])},
                committer \in {SignatureDeserialize(body_lines[n + 3])}} : TRUE

\* the parent lines are counted once, then the rest is parsed
DeserializeLines(serialized_data, body_lines) ==
    CHOOSE result \in
        {DeserializeSigned(serialized_data, body_lines, n) :
            n \in {ParentLines(body_lines)}} : TRUE

\* Commit::deserialize: the body is what stands between the first NUL and
\* the next one; its lines are the tree, the parents, the two signatures, a
\* line that is skipped, and the message
CommitDeserialize(serialized_data) ==
    IF "commit" \notin DOMAIN serialized_data THEN [ok |-> FALSE]
    ELSE CHOOSE result \in
            {DeserializeLines(serialized_data, body_lines) :
                body_lines \in {Lines(Split(serialized_data.commit, NUL)[1])}} : TRUE

\* Commit::load
CommitLoad(store, hash) ==
    CHOOSE loaded \in
        {IF h \notin DOMAIN store THEN [ok |-> FALSE]
         ELSE CHOOSE result \in
                 {CommitDeserialize(serialized_data) :
                     serialized_data \in {decompress(store[h])}} : TRUE :
            h \in {hash}} : TRUE

\* a commit that never records a parent
ParentHashesNone(head_ref_contents) == <<>>

\* the parents Commit::create reads from the current branch's ref file
ParentHashes(head_ref_contents) ==
    IF head_ref_contents # <<>> THEN <<FromHex(head_ref_contents[1])>> ELSE <<>>

\* the ref file truncated and left empty
RefContentsEmpty(hash) == <<>>

\* what Commit::create writes into the ref file
RefContents(hash) == <<ToHex(hash)>>

\* Commit::create: [ok, commit, store, refs, truncated]; the commit object is
\* written with File::create whether or not the file exists, so truncated
\* holds its hash when it did
CommitCreate(files, message, author, committer) ==
    IF head_ref_path \notin DOMAIN refs THEN [ok |-> FALSE]
    ELSE CHOOSE created \in
            {CHOOSE result \in
                {[ok |-> TRUE,
                  commit |-> [hash |-> HashOf(serialized_data), tree_hash |-> tree.hash,
                              parent_hashes |-> parent_hashes, author |-> author,
                              committer |-> committer, message |-> message],
                  store |-> WriteAlways(written, HashOf(serialized_data), serialized_data),
                  truncated |-> {HashOf(serialized_data)} \cap DOMAIN written,
                  refs |-> [b \in DOMAIN refs \cup {head_ref_path} |->
                               IF b = head_ref_path
                               THEN RefContents(HashOf(serialized_data)) ELSE refs[b]]] :
                    serialized_data \in {CommitSerialize(author, committer, parent_hashes,
                                                        tree.hash, message)},
                    written \in {WriteAll(objects, tree.written)}} : TRUE :
                parent_hashes \in {ParentHashes(refs[head_ref_path])},
                tree \in {TreeCreate(files)}} : TRUE

----------------------------------------------------------------------------
(* Branches and switching.                                                 *)

\* Branch::current: the ref file HEAD names must hold a hash
BranchCurrent ==
    IF head_ref_path \notin DOMAIN refs THEN [ok |-> FALSE]
    ELSE IF refs[head_ref_path] = <<>> THEN [ok |-> FALSE]
    ELSE [ok |-> TRUE, name |-> HEAD[2], commit_hash |-> FromHex(refs[head_ref_path][1])]

\* a Branch::create that creates the ref file before it reads the current
\* branch, and leaves it empty when that fails
BranchCreateWritesFirst(rs, name) ==
    LET current == BranchCurrent IN
    IF ~current.ok
    THEN [ok |-> FALSE,
          refs |-> [b \in DOMAIN rs \cup {name} |-> IF b = name THEN <<>> ELSE rs[b]]]
    ELSE [ok |-> TRUE,
          refs |-> [b \in DOMAIN rs \cup {name} |->
                       IF b = name THEN <<ToHex(current.commit_hash)>> ELSE rs[b]]]

\* a Branch::create that leaves the ref file of an existing branch alone
BranchCreateKeepsExisting(rs, name) ==
    LET current == BranchCurrent IN
    IF ~current.ok THEN [ok |-> FALSE, refs |-> rs]
    ELSE [ok |-> TRUE,
          refs |-> [b \in DOMAIN rs \cup {name} |->
                       IF b = name /\ b \notin DOMAIN rs
                       THEN <<ToHex(current.commit_hash)>> ELSE rs[b]]]

\* Branch::create: [ok, refs]; the ref file is written whether or not it exists
BranchCreate(rs, name) ==
    LET current == BranchCurrent IN
    IF ~current.ok THEN [ok |-> FALSE, refs |-> rs]
    ELSE [ok |-> TRUE,
          refs |-> [b \in DOMAIN rs \cup {name} |->
                       IF b = name THEN <<ToHex(current.commit_hash)>> ELSE rs[b]]]

\* Branch::find_by_name
find_by_name(rs, name) ==
    IF name \notin DOMAIN rs THEN [ok |-> FALSE]
    ELSE IF rs[name] = <<>> THEN [ok |-> FALSE]
    ELSE [ok |-> TRUE, name |-> name, commit_hash |-> FromHex(rs[name][1])]

\* the flattened tree of the commit a branch points at: [ok, entries]
BranchTree(rs, name) ==
    LET branch == find_by_name(rs, name) IN
    IF ~branch.ok THEN [ok |-> FALSE]
    ELSE CHOOSE flattened \in
            {IF ~commit.ok THEN [ok |-> FALSE]
             ELSE CHOOSE entries \in
                     {IF ~tree.ok THEN [ok |-> FALSE]
                      ELSE [ok |-> TRUE, entries |-> entries_flattened(tree.tree)] :
                         tree \in {TreeLoad(objects, commit.commit.tree_hash)}} : TRUE :
                commit \in {CommitLoad(objects, branch.commit_hash)}} : TRUE

\* the bytes Branch::switch writes for a blob body
WrittenBody(body) == Concat([i \in DOMAIN body |-> CharBytes(body[i])])

\* a HEAD that names master whatever the branch
HeadContentsMaster(name) == <<"ref: refs/heads/", "master">>

\* what Branch::switch writes into HEAD: "ref: refs/heads/<name>"
HeadContents(name) == <<"ref: refs/heads/", name>>

\* a switch that leaves the working directory as it finds it
RemoveContentsKeepsAll(w, ds) == [work |-> w, dirs |-> ds]

\* what is left of the working directory once Branch::switch has removed every
\* file and directory under the root, the metadata directory excepted
RemoveContents(w, ds) ==
    [work |-> [p \in {p \in DOMAIN w : StartsWith(p, rygit_path)} |-> w[p]],
     dirs |-> {d \in ds : StartsWith(d, rygit_path)}]

\* a switch that refuses to run while a file on disk is not staged
BranchSwitchGuarded(rs, name) ==
    CHOOSE switched \in
        {IF \E p \in DOMAIN work : \A i \in DOMAIN index : index[i][1] # p
         THEN [ok |-> FALSE, work |-> work, dirs |-> dirs]
         ELSE IF ~target.ok
         THEN [ok |-> FALSE, work |-> removed.work, dirs |-> removed.dirs]
         ELSE [ok |-> TRUE,
               work |-> Extend(removed.work,
                               [p \in DOMAIN target.entries |->
                                   WrittenBody(BlobBody(objects, [hash |-> target.entries[p]]))]),
               dirs |-> removed.dirs \cup UNION {Ancestors(p) : p \in DOMAIN target.entries}] :
            removed \in {RemoveContents(work, dirs)},
            target \in {BranchTree(rs, name)}} : TRUE

\* Branch::switch: [ok, work, dirs]; rs are the refs at the time of the switch
BranchSwitch(rs, name) ==
    CHOOSE switched \in
        {IF ~target.ok THEN [ok |-> FALSE, work |-> removed.work, dirs |-> removed.dirs]
         ELSE [ok |-> TRUE,
               work |-> Extend(removed.work,
                               [p \in DOMAIN target.entries |->
                                   WrittenBody(BlobBody(objects, [hash |-> target.entries[p]]))]),
               dirs |-> removed.dirs \cup UNION {Ancestors(p) : p \in DOMAIN target.entries}] :
            removed \in {RemoveContents(work, dirs)},
            target \in {BranchTree(rs, name)}} : TRUE

----------------------------------------------------------------------------
(* Status.                                                                 *)

\* a Tree::current that fails when there is no commit yet
CommittedTreeFilesStrict ==
    IF head_ref_path \notin DOMAIN refs THEN [ok |-> FALSE]
    ELSE IF refs[head_ref_path] = <<>> THEN [ok |-> FALSE]
    ELSE BranchTree(refs, head_ref_path)

\* a Tree::current that takes a missing ref file for an empty one
CommittedTreeFilesLenient ==
    IF head_ref_path \notin DOMAIN refs THEN [ok |-> TRUE, entries |-> <<>>]
    ELSE IF refs[head_ref_path] = <<>> THEN [ok |-> TRUE, entries |-> <<>>]
    ELSE BranchTree(refs, head_ref_path)

\* Tree::current: [ok, entries]; no commit yet gives the empty mapping
CommittedTreeFiles ==
    IF head_ref_path \notin DOMAIN refs THEN [ok |-> FALSE]
    ELSE IF refs[head_ref_path] = <<>> THEN [ok |-> TRUE, entries |-> <<>>]
    ELSE BranchTree(refs, head_ref_path)

\* Blob::hash_for: the blob hash of a file; a directory cannot be read as one
hash_for(p) == IF IsDir(p) THEN [ok |-> FALSE] ELSE [ok |-> TRUE, hash |-> BlobHashFor(p)]

\* the working-tree map: hash_for of everything WalkDir yields below the
\* root, files and directories alike, the metadata directory filtered out
WorkingTreeFiles ==
    LET working_tree_file_paths == WalkDir(Root) IN
    IF \E p \in working_tree_file_paths : ~hash_for(p).ok THEN [ok |-> FALSE]
    ELSE [ok |-> TRUE, entries |-> [p \in working_tree_file_paths |-> hash_for(p).hash]]

\* the index as a map: a later entry for a path replaces an earlier one
StagedFiles(files) ==
    [p \in {files[i].path : i \in DOMAIN files} |->
        files[CHOOSE i \in DOMAIN files :
                 files[i].path = p /\ \A j \in DOMAIN files : files[j].path = p => j <= i].hash]

Get(map, p) == IF p \in DOMAIN map THEN <<map[p]>> ELSE <<>>

StatusEntry(p, status) == [path |-> p, status |-> status]

\* Modified for every committed file that is staged, whatever its hash
CommittedFileEntriesNoCompare(staged_files, p, hash) ==
    LET staged_file_hash == Get(staged_files, p) IN
    (IF staged_file_hash = <<>> THEN <<StatusEntry(p, "Deleted")>> ELSE <<>>)
    \o (IF staged_file_hash # <<>> THEN <<StatusEntry(p, "Modified")>> ELSE <<>>)

\* the entries pushed for one committed file
CommittedFileEntries(staged_files, p, hash) ==
    LET staged_file_hash == Get(staged_files, p) IN
    (IF staged_file_hash = <<>> THEN <<StatusEntry(p, "Deleted")>> ELSE <<>>)
    \o (IF staged_file_hash # <<>> /\ staged_file_hash[1] # hash
        THEN <<StatusEntry(p, "Modified")>> ELSE <<>>)

\* Added for every staged file, committed or not
StagedFileEntriesAlways(committed_tree_files, p) == <<StatusEntry(p, "Added")>>

\* the staged entry pushed for one staged file
StagedFileEntries(committed_tree_files, p) ==
    IF p \notin DOMAIN committed_tree_files THEN <<StatusEntry(p, "Added")>> ELSE <<>>

\* a staged file missing from disk goes unreported
StagedFileUnstagedEntriesNone(working_tree_files, p) == <<>>

\* the unstaged entry pushed for one staged file
StagedFileUnstagedEntries(working_tree_files, p) ==
    IF p \notin DOMAIN working_tree_files THEN <<StatusEntry(p, "Deleted")>> ELSE <<>>

\* untracked, for one working-tree file
WorkingFileUntracked(staged_files, p) ==
    IF Get(staged_files, p) = <<>> THEN <<p>> ELSE <<>>

\* the unstaged entry pushed for one working-tree file
WorkingFileEntries(staged_files, p, hash) ==
    LET staged_file_hash == Get(staged_files, p) IN
    IF staged_file_hash # <<>> /\ staged_file_hash[1] # hash
    THEN <<StatusEntry(p, "Modified")>> ELSE <<>>

\* the paths of a map, in the order the loop visits them
Keys(map) == PathSeq(DOMAIN map)

SortPaths(ps) ==
    CHOOSE paths \in
        {[i \in DOMAIN sorted |-> sorted[i].path] :
            sorted \in {SortByPath([i \in DOMAIN ps |-> [path |-> ps[i]]])}} : TRUE

\* the three loops of RepositoryStatus::load over the committed, staged and
\* working-tree maps, ck, sk and wk their keys
StatusOf(committed_tree_files, working_tree_files, staged_files, ck, sk, wk) ==
       LET staged_changes ==
               Concat([i \in DOMAIN ck |->
                         CommittedFileEntries(staged_files, ck[i], committed_tree_files[ck[i]])])
               \o Concat([i \in DOMAIN sk |-> StagedFileEntries(committed_tree_files, sk[i])])
           unstaged_changes ==
               Concat([i \in DOMAIN sk |-> StagedFileUnstagedEntries(working_tree_files, sk[i])])
               \o Concat([i \in DOMAIN wk |->
                            WorkingFileEntries(staged_files, wk[i], working_tree_files[wk[i]])])
           untracked_files ==
               Concat([i \in DOMAIN wk |-> WorkingFileUntracked(staged_files, wk[i])])
       IN [ok |-> TRUE,
           staged_changes |-> SortByPath(staged_changes),
           unstaged_changes |-> SortByPath(unstaged_changes),
           untracked_files |-> SortPaths(untracked_files)]

\* RepositoryStatus::load
StatusLoad ==
    CHOOSE status \in
        {IF ~committed.ok \/ ~working.ok THEN [ok |-> FALSE]
         ELSE CHOOSE loaded \in
                 {StatusOf(committed.entries, working.entries, staged_files, ck, sk, wk) :
                     ck \in {Keys(committed.entries)}, sk \in {Keys(staged_files)},
                     wk \in {Keys(working.entries)}} : TRUE :
            committed \in {CommittedTreeFiles}, working \in {WorkingTreeFiles},
            staged_files \in {StagedFiles(IndexLoad(index))}} : TRUE

----------------------------------------------------------------------------
(* The state after init, and the user's edits of the working directory.    *)

\* the invocations that may run at the same time
Procs == {1, 2}

\* an invocation that has not started
Idle == [pc |-> "idle", path |-> <<>>, loaded |-> <<>>, loaded_at |-> 0,
         written_at |-> 0, ok |-> FALSE]

Init ==
    /\ work = <<>>
    /\ dirs = {}
    /\ index = <<>>
    /\ objects = <<>>
    /\ refs = [b \in {"master"} |-> <<>>]
    /\ HEAD = <<"ref: refs/heads/", "master">>
    /\ steps = 0
    /\ last = [op |-> "init"]
    /\ inflight = [i \in Procs |-> Idle]

Meta == <<index, objects, refs, HEAD>>

Count == steps < MaxSteps /\ steps' = steps + 1

\* a command that runs from start to end with no other invocation in flight
Tick == Count /\ UNCHANGED inflight

\* the user writes a file, creating the directories above it; a directory
\* cannot be written as a file, nor a file stand above another
WriteFile(p, c) ==
    /\ p \notin dirs
    /\ Ancestors(p) \cap DOMAIN work = {}
    /\ work' = [q \in DOMAIN work \cup {p} |-> IF q = p THEN c ELSE work[q]]
    /\ dirs' = dirs \cup Ancestors(p)
    /\ last' = [op |-> "edit"]
    /\ Tick
    /\ UNCHANGED Meta

\* the user removes a file; the directory it was in stays
RemoveFile(p) ==
    /\ p \in DOMAIN work
    /\ work' = [q \in DOMAIN work \ {p} |-> work[q]]
    /\ last' = [op |-> "edit"]
    /\ Tick
    /\ UNCHANGED <<dirs, Meta>>

\* the user removes a directory and everything in it
RemoveDir(d) ==
    /\ d \in dirs
    /\ work' = [q \in {q \in DOMAIN work : ~StartsWith(q, d)} |-> work[q]]
    /\ dirs' = {e \in dirs : ~StartsWith(e, d)}
    /\ last' = [op |-> "edit"]
    /\ Tick
    /\ UNCHANGED Meta

\* add <p>: the index is loaded, p is added, the index is written
Add(p) ==
    /\ Tick
    /\ \E r \in {IndexAdd(IndexLoad(index), p)} :
          /\ index' = IF r.ok THEN IndexWrite(r.files) ELSE index
          /\ objects' = WriteAll(objects, r.blobs)
          /\ last' = [op |-> "add", path |-> p, ok |-> r.ok, before |-> index,
                      is_file |-> IsFile(p), is_dir |-> IsDir(p), files |-> r.files,
                      repeat |-> (last.op = "add" /\ last.path = p)]
    /\ UNCHANGED <<work, dirs, refs, HEAD>>

\* Commit::create on the loaded index with the given message and signatures
CommitBy(message, author, committer) ==
    /\ Tick
    /\ \E r \in {CommitCreate(IndexLoad(index), message, author, committer)} :
          /\ objects' = IF r.ok THEN r.store ELSE objects
          /\ refs' = IF r.ok THEN r.refs ELSE refs
          /\ last' = IF r.ok
                     THEN [op |-> "commit", ok |-> TRUE, commit |-> r.commit,
                           ref_before |-> refs[head_ref_path], truncated |-> r.truncated]
                     ELSE [op |-> "commit", ok |-> FALSE]
    /\ UNCHANGED <<work, dirs, index, HEAD>>

\* commands::commit::run signs as author and committer alike
Commit(message, t) == CommitBy(message, Signature(t), Signature(t))

\* branch <name>
Branch(name) ==
    LET r == BranchCreate(refs, name) IN
    /\ Tick
    /\ refs' = r.refs
    /\ last' = [op |-> "branch", name |-> name, ok |-> r.ok]
    /\ UNCHANGED <<work, dirs, index, objects, HEAD>>

\* a switch that rewrites HEAD before it looks the branch up
SwitchHeadFirst(name, create) ==
    /\ Tick
    /\ \E created \in {IF create THEN BranchCreate(refs, name)
                        ELSE [ok |-> TRUE, refs |-> refs]} :
       \E r \in {BranchSwitch(created.refs, name)} :
          /\ refs' = created.refs
          /\ work' = IF created.ok THEN r.work ELSE work
          /\ dirs' = IF created.ok THEN r.dirs ELSE dirs
          /\ HEAD' = HeadContents(name)
          /\ last' = [op |-> "switch", name |-> name, ok |-> created.ok /\ r.ok,
                      before |-> DOMAIN work, switched |-> created.ok]
    /\ UNCHANGED <<index, objects>>

\* switch [--create] <name>: Branch::create first when asked to, then
\* Branch::switch; HEAD is rewritten once the files are written
Switch(name, create) ==
    /\ Tick
    /\ \E created \in {IF create THEN BranchCreate(refs, name)
                        ELSE [ok |-> TRUE, refs |-> refs]} :
       \E r \in {BranchSwitch(created.refs, name)} :
          /\ refs' = created.refs
          /\ work' = IF created.ok THEN r.work ELSE work
          /\ dirs' = IF created.ok THEN r.dirs ELSE dirs
          /\ HEAD' = IF created.ok /\ r.ok THEN HeadContents(name) ELSE HEAD
          /\ last' = [op |-> "switch", name |-> name, ok |-> created.ok /\ r.ok,
                      before |-> DOMAIN work, switched |-> created.ok]
    /\ UNCHANGED <<index, objects>>

\* status
Status ==
    /\ Tick
    /\ last' = [op |-> "status"] @@ StatusLoad
    /\ UNCHANGED <<work, dirs, index, objects, refs, HEAD>>

Next ==
    \/ \E p \in Paths, c \in Contents : WriteFile(p, c)
    \/ \E p \in Paths : RemoveFile(p)
    \/ \E d \in Dirs : RemoveDir(d)
    \/ \E p \in Paths \cup Dirs \cup {Root} : Add(p)
    \/ \E m \in Messages, t \in Times : Commit(m, t)
    \/ \E b \in BranchNames : Branch(b)
    \/ \E b \in BranchNames, create \in BOOLEAN : Switch(b, create)
    \/ Status

Spec == Init /\ [][Next]_vars

\* the same commands when the user also writes a file named as the directory
\* d is, at a time when there is no such directory
ReplacedPaths == Paths \cup Dirs

NextReplaced ==
    \/ \E p \in ReplacedPaths, c \in Contents : WriteFile(p, c)
    \/ \E p \in ReplacedPaths : RemoveFile(p)
    \/ \E d \in Dirs : RemoveDir(d)
    \/ \E p \in ReplacedPaths \cup {Root} : Add(p)
    \/ \E m \in Messages, t \in Times : Commit(m, t)
    \/ \E b \in BranchNames : Branch(b)
    \/ \E b \in BranchNames, create \in BOOLEAN : Switch(b, create)
    \/ Status

SpecReplaced == Init /\ [][NextReplaced]_vars

----------------------------------------------------------------------------
(* A tree built from the entries of a directory read in any order.          *)

\* the most entries a directory holds
MaxEntries == 3

EntryNames == {97, 98, 100}

\* what an entry may be: one of two files, or an empty directory
EntryObjects ==
    {[mode |-> ModeFile, hash |-> HashOf(BlobSerialize(<<97>>))],
     [mode |-> ModeFile, hash |-> HashOf(BlobSerialize(<<233>>))],
     [mode |-> ModeDirectory, hash |-> HashOf(serialize(<<>>))]}

CreatedEntries ==
    {[name |-> n, mode |-> o.mode, hash |-> o.hash, written |-> <<>>] :
        n \in EntryNames, o \in EntryObjects}

\* the entries of a directory in an order WalkDir may yield them: names differ
DirectoryReads ==
    {es \in UNION {[1..n -> CreatedEntries] : n \in 0..MaxEntries} :
        \A i \in DOMAIN es, j \in DOMAIN es : i # j => es[i].name # es[j].name}

\* Tree::create_recursive on the entries as read
BuildTree(created) ==
    /\ last' = [op |-> "tree", created |-> created] @@ SortedTree(created)
    /\ UNCHANGED <<work, dirs, index, objects, refs, HEAD, steps, inflight>>

NextTreeOrder == \E created \in DirectoryReads : BuildTree(created)

SpecTreeOrder == Init /\ [][NextTreeOrder]_vars

----------------------------------------------------------------------------
(* A repository whose current branch may lose its ref file.                 *)

\* the ref file of the current branch is deleted from outside the program
RemoveRef ==
    /\ head_ref_path \in DOMAIN refs
    /\ refs' = [b \in DOMAIN refs \ {head_ref_path} |-> refs[b]]
    /\ last' = [op |-> "edit"]
    /\ Tick
    /\ UNCHANGED <<work, dirs, index, objects, HEAD>>

NextMissingRef ==
    \/ \E p \in Paths, c \in Contents : WriteFile(p, c)
    \/ \E p \in Paths \cup Dirs \cup {Root} : Add(p)
    \/ \E m \in Messages, t \in Times : Commit(m, t)
    \/ Status
    \/ RemoveRef

SpecMissingRef == Init /\ [][NextMissingRef]_vars

----------------------------------------------------------------------------
(* Two add invocations at the same time: each loads the index file, changes *)
(* the entries it holds in memory and rewrites the file; nothing is locked. *)

\* an index that is read again when the file is rewritten
InMemoryIndexReloaded(i) == IndexLoad(index)

\* the entries invocation i holds in memory, from its Index::load
InMemoryIndex(i) == IndexLoad(inflight[i].loaded)

\* add <p>, first half: Index::load
AddLoad(i, p) ==
    /\ inflight[i].pc = "idle"
    /\ inflight' = [inflight EXCEPT ![i] = [Idle EXCEPT !.pc = "loaded", !.path = p,
                                                       !.loaded = index,
                                                       !.loaded_at = steps + 1]]
    /\ last' = [op |-> "add_load", proc |-> i]
    /\ Count
    /\ UNCHANGED <<work, dirs, index, objects, refs, HEAD>>

\* add <p>, second half: Index::add on the entries in memory, the blobs
\* stored, the index file rewritten
AddWrite(i) ==
    LET r == IndexAdd(InMemoryIndex(i), inflight[i].path) IN
    /\ inflight[i].pc = "loaded"
    /\ index' = IF r.ok THEN IndexWrite(r.files) ELSE index
    /\ objects' = WriteAll(objects, r.blobs)
    /\ inflight' = [inflight EXCEPT ![i].pc = "done", ![i].ok = r.ok,
                                      ![i].written_at = steps + 1]
    /\ last' = [op |-> "add_write", proc |-> i, ok |-> r.ok]
    /\ Count
    /\ UNCHANGED <<work, dirs, refs, HEAD>>

NextConcurrentAdd ==
    \/ \E p \in Paths, c \in Contents :
          WriteFile(p, c) /\ \A i \in Procs : inflight[i].pc = "idle"
    \/ \E i \in Procs, p \in Paths \cup Dirs \cup {Root} : AddLoad(i, p)
    \/ \E i \in Procs : AddWrite(i)

SpecConcurrentAdd == Init /\ [][NextConcurrentAdd]_vars

----------------------------------------------------------------------------
(* Two invocations that write objects at the same time.  A blob or a tree   *)
(* is written when no file exists at its path, a commit always; the file is *)
(* created, which empties it, and write_all fills it piece by piece from    *)
(* the writer's own offset.  Here an object file is the sequence of its     *)
(* pieces, a piece never written under a later one being a hole.            *)

\* the pieces write_all may take to write a payload
NPieces == 2

Hole == [zlib |-> <<>>, part |-> 0]

\* the compressed payload as the pieces of its file
Pieces(data) == [k \in 1..NPieces |-> [zlib |-> data, part |-> k]]

\* the serialised objects the invocations write: a blob, a tree, a commit
Payloads ==
    {BlobSerialize(<<97>>), serialize(<<>>),
     CommitSerialize(Signature(0), Signature(0), <<>>, HashOf(serialize(<<>>)), <<109>>)}

\* Commit::create alone does not look whether the object file exists
Checked(data) == "commit" \notin DOMAIN data

NotWriting == [pc |-> "idle", data |-> <<>>, offset |-> 0, skipped |-> FALSE]

InitObjectRace ==
    /\ work = <<>> /\ dirs = {} /\ index = <<>> /\ objects = <<>>
    /\ refs = [b \in {"master"} |-> <<>>]
    /\ HEAD = <<"ref: refs/heads/", "master">>
    /\ steps = 0
    /\ last = [op |-> "init"]
    /\ inflight = [i \in Procs |-> NotWriting]

Repository == <<work, dirs, index, refs, HEAD, steps>>

\* a write in append mode: at the end of the file
WritePositionAppend(i) == Len(objects[HashOf(inflight[i].data)]) + 1

\* write_all writes at the offset of the writer's own file handle
WritePosition(i) == inflight[i].offset + 1

\* the serialised data is hashed
Begin(i, data) ==
    /\ inflight[i].pc = "idle"
    /\ inflight' = [inflight EXCEPT ![i] =
                        [NotWriting EXCEPT !.data = data,
                             !.pc = IF Checked(data) THEN "check" ELSE "create"]]
    /\ last' = [op |-> "begin", proc |-> i]
    /\ UNCHANGED <<objects, Repository>>

\* object_path().exists(): the write is skipped when the file is there
Check(i) ==
    /\ inflight[i].pc = "check"
    /\ inflight' = IF HashOf(inflight[i].data) \in DOMAIN objects
                   THEN [inflight EXCEPT ![i].pc = "done", ![i].skipped = TRUE]
                   ELSE [inflight EXCEPT ![i].pc = "create"]
    /\ last' = [op |-> "check", proc |-> i]
    /\ UNCHANGED <<objects, Repository>>

\* File::create: the file is created, or emptied when it exists
Create(i) ==
    LET hash == HashOf(inflight[i].data) IN
    /\ inflight[i].pc = "create"
    /\ objects' = [h \in DOMAIN objects \cup {hash} |->
                      IF h = hash THEN <<>> ELSE objects[h]]
    /\ inflight' = [inflight EXCEPT ![i].pc = "write"]
    /\ last' = [op |-> "create", proc |-> i]
    /\ UNCHANGED Repository

\* write_all: the next piece of the compressed payload
WritePiece(i) ==
    LET hash == HashOf(inflight[i].data)
        file == objects[hash]
        at == WritePosition(i)
        piece == Pieces(inflight[i].data)[inflight[i].offset + 1]
        written == [k \in 1..(IF at > Len(file) THEN at ELSE Len(file)) |->
                       IF k = at THEN piece
                       ELSE IF k <= Len(file) THEN file[k] ELSE Hole]
    IN /\ inflight[i].pc = "write"
       /\ objects' = [objects EXCEPT ![hash] = written]
       /\ inflight' = [inflight EXCEPT
                          ![i].offset = @ + 1,
                          ![i].pc = IF inflight[i].offset + 1 = NPieces
                                    THEN "done" ELSE "write"]
       /\ last' = [op |-> "write", proc |-> i]
       /\ UNCHANGED Repository

NextObjectRace ==
    \/ \E i \in Procs, data \in Payloads : Begin(i, data)
    \/ \E i \in Procs : Check(i)
    \/ \E i \in Procs : Create(i)
    \/ \E i \in Procs : WritePiece(i)

SpecObjectRace == InitObjectRace /\ [][NextObjectRace]_vars

----------------------------------------------------------------------------
(* What the claims speak of.                                               *)

\* the index as it is now, as a path -> hash map
Staged == StagedFiles(IndexLoad(index))

\* the flattened tree of a stored commit
CommitTreeFiles(commit) == entries_flattened(TreeLoad(objects, commit.tree_hash).tree)

\* every path a status result can name
StatusPaths(committed) == DOMAIN committed \cup DOMAIN Staged \cup DOMAIN work \cup dirs

Statuses == {"Deleted", "Modified", "Added"}

\* the entries of an index for paths other than p, in order
Others(files, p) == SelectSeq(files, LAMBDA f : f.path # p)

EntriesFor(files, p) == {i \in DOMAIN files : files[i].path = p}

----------------------------------------------------------------------------
(* C1..C10.                                                                *)

\* C1: the flattened tree of a new commit holds exactly the index's paths,
\* each with the indexed blob hash, whatever the working directory holds.
C1_CommitTreeIsIndex ==
    (last.op = "commit" /\ last.ok) => CommitTreeFiles(last.commit) = Staged

\* C2: after a successful switch the files of the working directory are
\* exactly the paths of the flattened tree of the branch's commit, with the
\* directories above them and no other directory.
C2_SwitchMaterialisesTree ==
    (last.op = "switch" /\ last.ok) =>
        LET target == BranchTree(refs, last.name) IN
        /\ target.ok
        /\ DOMAIN work = DOMAIN target.entries
        /\ dirs = UNION {Ancestors(p) : p \in DOMAIN target.entries}

\* a switch that removed a file the tree does not hold and wrote a file in a
\* directory
C2_Witness ==
    /\ last.op = "switch" /\ last.ok
    /\ \E p \in last.before : p \notin DOMAIN work
    /\ \E p \in DOMAIN work : Len(p) > 1

\* C3: the bytes switch writes to a path are the body of the blob the tree
\* entry addresses, for every byte value.
C3_SwitchWritesBlobBytes ==
    (last.op = "switch" /\ last.ok) =>
        LET target == BranchTree(refs, last.name) IN
        \A p \in DOMAIN target.entries :
            /\ p \in DOMAIN work
            /\ work[p] = BlobBody(objects, [hash |-> target.entries[p]])
            /\ BlobHashFor(p) = target.entries[p]

\* the staged-change rule as the claim states it
StagedRule(committed, p, status) ==
    CASE status = "Deleted" -> p \in DOMAIN committed /\ p \notin DOMAIN Staged
      [] status = "Modified" ->
            p \in DOMAIN committed /\ p \in DOMAIN Staged /\ committed[p] # Staged[p]
      [] status = "Added" -> p \notin DOMAIN committed /\ p \in DOMAIN Staged

\* C4: staged_changes holds (p, Deleted) iff p is committed and not staged,
\* (p, Modified) iff p is in both with different hashes, (p, Added) iff p is
\* staged and not committed, and nothing else.
C4_StagedRule ==
    (last.op = "status" /\ last.ok) =>
        LET committed == CommittedTreeFiles.entries
            reported == Range(last.staged_changes)
        IN /\ \A p \in StatusPaths(committed), st \in Statuses :
                StagedRule(committed, p, st) <=> StatusEntry(p, st) \in reported
           /\ \A e \in reported :
                e.path \in StatusPaths(committed) /\ e.status \in Statuses

\* a status that reports a staged modification
C4_Witness ==
    /\ last.op = "status" /\ last.ok
    /\ \E e \in Range(last.staged_changes) : e.status = "Modified"

\* the unstaged-change rule as the claim states it
UnstagedRule(p, status) ==
    CASE status = "Deleted" -> p \in DOMAIN Staged /\ p \notin DOMAIN work
      [] status = "Modified" ->
            p \in DOMAIN Staged /\ p \in DOMAIN work /\ Staged[p] # BlobHashFor(p)
      [] status = "Added" -> FALSE

\* C5: unstaged_changes holds (p, Deleted) iff p is staged and not a file on
\* disk, (p, Modified) iff p is staged and on disk with another hash;
\* untracked_files holds p iff p is a file on disk and not staged; nothing else.
C5_UnstagedRule ==
    (last.op = "status" /\ last.ok) =>
        LET paths == StatusPaths(CommittedTreeFiles.entries)
            reported == Range(last.unstaged_changes)
            untracked == Range(last.untracked_files)
        IN /\ \A p \in paths, st \in Statuses :
                UnstagedRule(p, st) <=> StatusEntry(p, st) \in reported
           /\ \A e \in reported : e.path \in paths /\ e.status \in Statuses
           /\ \A p \in paths :
                (p \in DOMAIN work /\ p \notin DOMAIN Staged) <=> p \in untracked
           /\ untracked \subseteq paths

\* a status that reports an unstaged modification and an unstaged deletion
C5_Witness ==
    /\ last.op = "status" /\ last.ok
    /\ \E e \in Range(last.unstaged_changes) : e.status = "Modified"
    /\ \E e \in Range(last.unstaged_changes) : e.status = "Deleted"

\* C6: a path is in at most one entry of staged_changes and in at most one
\* entry of unstaged_changes and untracked_files together.
C6_StatusPartition ==
    (last.op = "status" /\ last.ok) =>
        \A p \in StatusPaths(CommittedTreeFiles.entries) :
            /\ Cardinality(EntriesFor(last.staged_changes, p)) <= 1
            /\ Cardinality(EntriesFor(last.unstaged_changes, p))
                 + Cardinality({i \in DOMAIN last.untracked_files :
                                   last.untracked_files[i] = p}) <= 1

\* a status that reports one path both as staged and as unstaged
C6_Witness ==
    /\ last.op = "status" /\ last.ok
    /\ \E p \in DOMAIN work :
          /\ EntriesFor(last.staged_changes, p) # {}
          /\ EntriesFor(last.unstaged_changes, p) # {}

\* C7: after a successful commit the ref file of the branch HEAD names holds
\* the hex hash of the new commit, and that hash loads as the commit created.
C7_RefIsNewCommit ==
    (last.op = "commit" /\ last.ok) =>
        /\ head_ref_path \in DOMAIN refs
        /\ refs[head_ref_path] = <<ToHex(last.commit.hash)>>
        /\ LET loaded == CommitLoad(objects, last.commit.hash) IN
              /\ loaded.ok
              /\ loaded.commit.hash = last.commit.hash
              /\ loaded.commit.tree_hash = last.commit.tree_hash
              /\ loaded.commit.parent_hashes = last.commit.parent_hashes

\* a commit on a branch other than master that replaced the ref's old hash
C7_Witness ==
    /\ last.op = "commit" /\ last.ok
    /\ head_ref_path # "master"
    /\ last.ref_before # <<>>
    /\ last.ref_before # refs[head_ref_path]

\* C8: the new commit has no parent iff the ref file was empty before the
\* call, and otherwise the one parent the ref file held; never two.
C8_Parents ==
    (last.op = "commit" /\ last.ok) =>
        LET loaded == CommitLoad(objects, last.commit.hash) IN
        /\ loaded.ok
        /\ Len(loaded.commit.parent_hashes) <= 1
        /\ (Len(loaded.commit.parent_hashes) = 0) <=> (last.ref_before = <<>>)
        /\ last.ref_before # <<>> =>
              loaded.commit.parent_hashes = <<FromHex(last.ref_before[1])>>

\* a commit with one parent, that parent being a commit without parents
C8_Witness ==
    /\ last.op = "commit" /\ last.ok
    /\ Len(last.commit.parent_hashes) = 1
    /\ LET parent == CommitLoad(objects, last.commit.parent_hashes[1]) IN
          parent.ok /\ parent.commit.parent_hashes = <<>>

\* C9: add of a file on disk leaves exactly one entry for it, holding the
\* blob hash of its contents, stores that blob, and leaves the entries of
\* every other path as they were.
C9_AddFile ==
    (last.op = "add" /\ last.is_file) =>
        LET files == IndexLoad(index)
            p == last.path
        IN /\ last.ok
           /\ Cardinality(EntriesFor(files, p)) = 1
           /\ \A i \in EntriesFor(files, p) : files[i].hash = BlobHashFor(p)
           /\ BlobHashFor(p) \in DOMAIN objects
           /\ decompress(objects[BlobHashFor(p)]) = BlobSerialize(work[p])
           /\ Others(files, p) = Others(IndexLoad(last.before), p)

\* an add that replaced the entry of a changed file while another path was
\* staged
C9_Witness ==
    /\ last.op = "add" /\ last.is_file /\ last.ok
    /\ \E i \in EntriesFor(IndexLoad(last.before), last.path) :
          IndexLoad(last.before)[i].hash # BlobHashFor(last.path)
    /\ Others(IndexLoad(index), last.path) # <<>>

\* C10: add of a path that is not on disk removes the path's entry and
\* succeeds when there is one, and fails leaving the index file as it was
\* when there is none.
C10_AddMissing ==
    (last.op = "add" /\ ~last.is_file /\ ~last.is_dir) =>
        LET files == IndexLoad(index)
            before == IndexLoad(last.before)
            p == last.path
        IN IF EntriesFor(before, p) # {}
           THEN /\ last.ok
                /\ EntriesFor(files, p) = {}
                /\ Others(files, p) = Others(before, p)
           ELSE ~last.ok /\ index = last.before

\* an add that removed the entry of a deleted file and kept another entry
C10_Witness ==
    /\ last.op = "add" /\ ~last.is_file /\ ~last.is_dir /\ last.ok
    /\ EntriesFor(IndexLoad(last.before), last.path) # {}
    /\ index # <<>>

----------------------------------------------------------------------------
(* C11..C20.                                                               *)

\* the entries of an index below a directory, and the others, in order
Under(files, d) == SelectSeq(files, LAMBDA f : StartsWith(f.path, d))

Outside(files, d) == SelectSeq(files, LAMBDA f : ~StartsWith(f.path, d))

\* C11: add of a directory d succeeds and leaves, below d, exactly one entry
\* for every file now on disk below d, holding the blob hash of its contents;
\* entries below d of files gone from disk are pruned and the entries outside
\* d are as they were. It holds as long as no directory takes the place of a
\* staged file.
C11_AddDir ==
    (last.op = "add" /\ last.is_dir) =>
        LET files == IndexLoad(index)
            d == last.path
            under == Under(files, d)
        IN /\ last.ok
           /\ {f.path : f \in Range(under)} = {p \in DOMAIN work : StartsWith(p, d)}
           /\ \A p \in DOMAIN work : Cardinality(EntriesFor(under, p)) <= 1
           /\ \A f \in Range(under) : f.hash = BlobHashFor(f.path)
           /\ Outside(files, d) = Outside(IndexLoad(last.before), d)

\* C12: after a successful add the index file holds one line per in-memory
\* entry, in order, and nothing of what it held before; its lines are in
\* strictly ascending path order, so no path has two lines.
C12_IndexFileSorted ==
    /\ (last.op = "add" /\ last.ok) =>
          /\ Len(index) = Len(last.files)
          /\ IndexLoad(index) = last.files
          /\ \A i \in DOMAIN index :
                index[i] = <<last.files[i].path, ToHex(last.files[i].hash)>>
    /\ \A i \in DOMAIN index, j \in DOMAIN index :
          i < j => PathLess(index[i][1], index[j][1])

\* an add whose new entry was sorted ahead of the line the file already held
C12_Witness ==
    /\ last.op = "add" /\ last.ok
    /\ Len(last.before) = 1 /\ Len(index) = 2
    /\ index[2] = last.before[1]

\* C13: an add of a path that directly follows an add of the same path leaves
\* the index file as the first add left it.
C13_AddIdempotent ==
    (last.op = "add" /\ last.repeat) => index = last.before

\* a successful add of a file repeated while another path is staged
C13_Witness ==
    /\ last.op = "add" /\ last.repeat /\ last.ok /\ last.is_file
    /\ Len(index) = 2

\* C14: a successful switch leaves HEAD holding "ref: refs/heads/<name>", so
\* that Branch::current reports <name>, with the files of the branch's tree
\* written; a switch that fails on the way leaves HEAD as it was.
C14_HeadAfterSwitch ==
    [][last'.op = "switch" =>
          IF last'.ok
          THEN /\ HEAD' = <<"ref: refs/heads/", last'.name>>
               /\ BranchCurrent'.ok
               /\ BranchCurrent'.name = last'.name
               /\ DOMAIN work' = DOMAIN BranchTree(refs', last'.name).entries
          ELSE HEAD' = HEAD]_vars

\* a successful switch away from master that wrote a file
C14_Witness ==
    /\ last.op = "switch" /\ last.ok
    /\ last.name = "feature" /\ HEAD[2] = "feature"
    /\ work # <<>>

\* an index entry that the commit of the current branch does not hold
StagedUncommitted(p) ==
    /\ p \in DOMAIN Staged
    /\ CommittedTreeFiles.ok
    /\ \/ p \notin DOMAIN CommittedTreeFiles.entries
       \/ CommittedTreeFiles.entries[p] # Staged[p]

\* a file on disk that is not staged, or staged with other contents
Unstaged(p) ==
    /\ p \in DOMAIN work
    /\ p \in DOMAIN Staged => Staged[p] # BlobHashFor(p)

OtherRefsKept(b) ==
    /\ DOMAIN refs' \ {b} = DOMAIN refs \ {b}
    /\ \A c \in DOMAIN refs \ {b} : refs'[c] = refs[c]

\* C16: a successful branch <name> leaves refs/heads/<name> holding the hash
\* the current branch's ref holds, and HEAD and every other ref as they were;
\* a commit rewrites the ref of the current branch and no other, so a branch
\* keeps the commit it was created from.
C16_BranchCreateFrame ==
    [][/\ (last'.op = "branch" /\ last'.ok) =>
             /\ last'.name \in DOMAIN refs'
             /\ refs'[last'.name] = refs[head_ref_path]
             /\ refs[head_ref_path] # <<>>
             /\ refs'[head_ref_path] = refs[head_ref_path]
             /\ HEAD' = HEAD
             /\ OtherRefsKept(last'.name)
       /\ (last'.op = "branch" /\ ~last'.ok) => refs' = refs /\ HEAD' = HEAD
       /\ last'.op = "commit" => HEAD' = HEAD /\ OtherRefsKept(head_ref_path)]_vars

\* a commit that advanced the current branch while another branch stayed at
\* the commit it was created from, the new commit's parent
C16_Witness ==
    /\ last.op = "commit" /\ last.ok
    /\ Len(last.commit.parent_hashes) = 1
    /\ \E b \in DOMAIN refs :
          /\ b # head_ref_path
          /\ refs[b] = <<ToHex(last.commit.parent_hashes[1])>>
          /\ refs[b] # refs[head_ref_path]

\* C17: no command writes to an object file that exists: every stored object
\* stays as it is, and a commit opens no existing object file for writing.
C17_ObjectWritesDedup ==
    [][/\ \A h \in DOMAIN objects : h \in DOMAIN objects' /\ objects'[h] = objects[h]
       /\ (last'.op = "commit" /\ last'.ok) => last'.truncated = {}]_vars

\* the paths an index file has a line for
IndexPaths(lines) == {lines[k][1] : k \in DOMAIN lines}

\* invocation j rewrote the index file after invocation i had loaded it
WroteSinceLoad(i, j) ==
    /\ j # i
    /\ inflight[j].pc = "done" /\ inflight[j].ok
    /\ inflight[i].loaded_at < inflight[j].written_at

\* C18: when an add rewrites the index file that another add has rewritten
\* since the first one loaded it, the file is the writer's own rewrite of what
\* it loaded: a file the other add staged, that the writer neither loaded nor
\* adds itself, is missing from the index. Nothing keeps the two apart.
C18_LostUpdate ==
    \A i \in Procs, j \in Procs :
        (last.op = "add_write" /\ last.proc = i /\ last.ok /\ WroteSinceLoad(i, j)) =>
            LET q == inflight[j].path IN
            /\ index = IndexWrite(IndexAdd(IndexLoad(inflight[i].loaded),
                                           inflight[i].path).files)
            /\ (IsFile(q) /\ q \notin IndexPaths(inflight[i].loaded)
                          /\ ~StartsWith(q, inflight[i].path)) =>
                   q \notin IndexPaths(index)

\* both adds have succeeded and the file the first one staged is on disk and
\* missing from the index
C18_Witness ==
    \E i \in Procs, j \in Procs :
        /\ last.op = "add_write" /\ last.proc = i /\ last.ok /\ WroteSinceLoad(i, j)
        /\ IsFile(inflight[j].path) /\ IsFile(inflight[i].path)
        /\ inflight[j].path \notin IndexPaths(index)
        /\ inflight[i].path \in IndexPaths(index)

\* C19: while two invocations write the object of one hash, the file holds
\* nothing but pieces of that object's compressed payload, each in its place;
\* a writer that has finished has skipped the write because the file was
\* there or has written the whole payload; and once both have finished the
\* file is exactly the compressed payload.
C19_ObjectRaceSafe ==
    /\ \A h \in DOMAIN objects :
          /\ Len(objects[h]) <= NPieces
          /\ \A k \in DOMAIN objects[h] :
                objects[h][k] = Hole \/ objects[h][k] = Pieces(h.sha1)[k]
    /\ \A i \in Procs :
          inflight[i].pc = "done" =>
              /\ inflight[i].skipped => inflight[i].offset = 0
              /\ ~inflight[i].skipped => inflight[i].offset = NPieces
              /\ HashOf(inflight[i].data) \in DOMAIN objects
    /\ \A i \in Procs, j \in Procs :
          (i # j /\ inflight[i].pc = "done" /\ inflight[j].pc = "done"
                 /\ inflight[i].data = inflight[j].data) =>
              objects[HashOf(inflight[i].data)] = Pieces(inflight[i].data)

\* both invocations have written the same object, neither having skipped
C19_Witness ==
    /\ \A i \in Procs : inflight[i].pc = "done" /\ ~inflight[i].skipped
    /\ inflight[1].data = inflight[2].data
    /\ Checked(inflight[1].data)

\* the ref file of the current branch is there and empty, or is not there
HeadRefEmpty == head_ref_path \in DOMAIN refs /\ refs[head_ref_path] = <<>>

HeadRefMissing == head_ref_path \notin DOMAIN refs

\* the staged changes of a status whose committed tree is empty
AllAdded(staged_changes) ==
    /\ \A e \in Range(staged_changes) : e.status = "Added"
    /\ {e.path : e \in Range(staged_changes)} = DOMAIN Staged

\* C20 as stated: with the ref file of the current branch empty or missing, a
\* commit succeeds and has no parent, and status does not fail for the ref
\* and reports every staged path as added.
C20_EmptyOrMissingRef ==
    /\ (last.op = "commit" /\ HeadRefMissing) => last.ok
    /\ (last.op = "commit" /\ last.ok /\ last.ref_before = <<>>) =>
          last.commit.parent_hashes = <<>>
    /\ (last.op = "status" /\ (HeadRefEmpty \/ HeadRefMissing)) =>
          /\ dirs = {} => last.ok
          /\ last.ok => AllAdded(last.staged_changes)

\* C20, amended: with the ref file of the current branch empty, a commit
\* succeeds and has no parent, and status does not fail for the ref and
\* reports every staged path as added; with the ref file missing, commit and
\* status fail.
C20_EmptyRefNoCommits ==
    /\ last.op = "commit" => (last.ok <=> ~HeadRefMissing)
    /\ (last.op = "commit" /\ last.ok /\ last.ref_before = <<>>) =>
          /\ last.commit.parent_hashes = <<>>
          /\ CommitLoad(objects, last.commit.hash).commit.parent_hashes = <<>>
    /\ (last.op = "status" /\ HeadRefEmpty) =>
          /\ dirs = {} => last.ok
          /\ last.ok => AllAdded(last.staged_changes)
    /\ (last.op = "status" /\ HeadRefMissing) => ~last.ok

\* a status of a repository without commits that reports a staged file as
\* added
C20_Witness ==
    /\ last.op = "status" /\ last.ok /\ HeadRefEmpty
    /\ last.staged_changes # <<>>

----------------------------------------------------------------------------
(* C21..C30.                                                               *)

\* C21: branch <name> fails, and writes no ref file, exactly when the ref file
\* of the current branch is empty; once a commit has been made Branch::current
\* succeeds with the branch name HEAD records and the hash of that commit.
C21_BranchNeedsCommit ==
    [][/\ last'.op = "branch" =>
             /\ last'.ok <=> refs[head_ref_path] # <<>>
             /\ ~last'.ok => refs' = refs
       /\ (last'.op = "commit" /\ last'.ok) =>
             /\ BranchCurrent'.ok
             /\ BranchCurrent'.name = HEAD'[2]
             /\ BranchCurrent'.commit_hash = last'.commit.hash]_vars

\* a branch command that failed in a repository without commits
C21_Witness ==
    /\ last.op = "branch" /\ ~last.ok
    /\ refs[head_ref_path] = <<>>
    /\ last.name \notin DOMAIN refs

SerializedNames(serialized_data) ==
    LET named == SelectSeq(serialized_data.tree,
                           LAMBDA token : "c" \in DOMAIN token /\ token \notin {SP, NUL})
    IN [i \in DOMAIN named |-> named[i].c]

\* C23: the entries of a tree as written are in strictly ascending order of
\* name, and the same entries read in any other order give the same
\* serialised tree and the same hash.
C23_TreeOrderNormalised ==
    last.op = "tree" =>
        /\ \A i \in DOMAIN SerializedNames(last.serialized_data),
              j \in DOMAIN SerializedNames(last.serialized_data) :
              i < j => SerializedNames(last.serialized_data)[i]
                          < SerializedNames(last.serialized_data)[j]
        /\ Len(SerializedNames(last.serialized_data)) = Len(last.created)
        /\ \A other \in DirectoryReads :
              Range(other) = Range(last.created) =>
                  /\ SortedTree(other).serialized_data = last.serialized_data
                  /\ SortedTree(other).hash = last.hash

\* a tree of three entries that were read in descending order of name
C23_Witness ==
    /\ last.op = "tree"
    /\ Len(last.created) = 3
    /\ last.created[1].name > last.created[2].name
    /\ last.created[2].name > last.created[3].name

----------------------------------------------------------------------------
(* Commits with any message and signatures: Commit::create is called with  *)
(* messages that hold line feeds, carriage returns and NULs and with names *)
(* that hold one or two spaces.                                            *)

MaxCommits == 2

CodecMessages == {<<>>, <<109>>, <<10>>, <<109, 10>>, <<10, 109>>, <<109, 10, 109>>,
                  <<109, 10, 10>>, <<109, 13, 10, 109>>, <<109, 0, 109>>}

CodecNames == {<<76, 32, 83>>, <<76, 32, 32, 83>>}

CodecSignatures == {[name |-> n, email |-> "l@e", timestamp |-> 0] : n \in CodecNames}

CommitWith(message, author, committer) ==
    /\ steps < MaxCommits
    /\ CommitBy(message, author, committer)

NextCommitCodec ==
    \E m \in CodecMessages, a \in CodecSignatures, c \in CodecSignatures :
        CommitWith(m, a, c)

SpecCommitCodec == Init /\ [][NextCommitCodec]_vars

\* C24: every commit written by Commit::create, whatever its message, author
\* and committer, is loaded back with the same hash, tree hash, parent list,
\* author, committer and message
C24_CommitRoundTrip ==
    (last.op = "commit" /\ last.ok) =>
        LET loaded == CommitLoad(objects, last.commit.hash)
        IN loaded.ok /\ loaded.commit = last.commit

----------------------------------------------------------------------------
(* Reading object files whose bytes are malformed: the files are put into  *)
(* the object directory from outside and then read as a tree or a commit.  *)

MaxStored == 3

\* a blob, a tree naming it, and a commit of that tree
StoredBlob == BlobSerialize(<<97>>)
StoredEntry == <<[mode |-> ModeFile], SP, [c |-> 97], NUL, [hash |-> HashOf(StoredBlob)]>>
StoredTree == [tree |-> StoredEntry, len |-> BodyLen(StoredEntry)]
StoredCommit == CommitSerialize(Signature(0), Signature(0), <<>>, HashOf(StoredTree), <<109>>)

\* a length field that is no byte count
MalformedLength == -1

\* the tree with a length field that is no byte count, with a mode that is
\* none of the two, cut off inside the name, and cut off inside the hash
MalformedTreeBodies ==
    {[tree |-> StoredEntry, len |-> MalformedLength],
     [tree |-> <<[mode |-> "100755"]>> \o Tail(StoredEntry), len |-> BodyLen(StoredEntry)],
     [tree |-> SubSeq(StoredEntry, 1, 3), len |-> BodyLen(StoredEntry)],
     [tree |-> SubSeq(StoredEntry, 1, 4) \o <<[short |-> 19]>>, len |-> BodyLen(StoredEntry)]}

\* as a tree, an object of another type has the wrong type tag
MalformedTrees == MalformedTreeBodies \cup {StoredBlob, StoredCommit}

MalformedCommits ==
    {[commit |-> StoredCommit.commit, len |-> MalformedLength], StoredBlob, StoredTree}

StoredObjects == {StoredBlob, StoredTree, StoredCommit} \cup MalformedTrees \cup MalformedCommits

\* an object file appears in the object directory
Store(data) ==
    /\ Cardinality(DOMAIN objects) < MaxStored
    /\ HashOf(data) \notin DOMAIN objects
    /\ objects' = WriteAlways(objects, HashOf(data), data)
    /\ last' = [op |-> "store"]
    /\ UNCHANGED <<work, dirs, index, refs, HEAD, steps, inflight>>

\* Tree::load of a stored object
ReadTree(hash) ==
    /\ hash \in DOMAIN objects
    /\ last' = [op |-> "read_tree", hash |-> hash, result |-> TreeLoad(objects, hash)]
    /\ UNCHANGED <<work, dirs, index, objects, refs, HEAD, steps, inflight>>

\* Commit::load of a stored object
ReadCommit(hash) ==
    /\ hash \in DOMAIN objects
    /\ last' = [op |-> "read_commit", hash |-> hash, result |-> CommitLoad(objects, hash)]
    /\ UNCHANGED <<work, dirs, index, objects, refs, HEAD, steps, inflight>>

NextMalformed ==
    \/ \E data \in StoredObjects : Store(data)
    \/ \E hash \in DOMAIN objects : ReadTree(hash)
    \/ \E hash \in DOMAIN objects : ReadCommit(hash)

SpecMalformed == Init /\ [][NextMalformed]_vars

\* C25: reading a stored tree or commit whose bytes are malformed (wrong type
\* tag, malformed length field, unknown mode, unterminated name, short hash)
\* returns an error value: it neither panics nor yields a tree or commit
C25_MalformedIsError ==
    /\ (last.op = "read_tree" /\ decompress(objects[last.hash]) \in MalformedTrees) =>
           (~last.result.ok /\ "panic" \notin DOMAIN last.result)
    /\ (last.op = "read_commit" /\ decompress(objects[last.hash]) \in MalformedCommits) =>
           (~last.result.ok /\ "panic" \notin DOMAIN last.result)

----------------------------------------------------------------------------
(* log: the walk from the commit of the current branch along the first     *)
(* parents, one iteration of its loop per step. The command runs to its    *)
(* end before the next command starts.                                     *)

Walking == last.op = "log" /\ last.pc = "walk"

\* Commit::parents: every parent is loaded
RECURSIVE CommitParents(_, _)
CommitParents(store, parent_hashes) ==
    IF parent_hashes = <<>> THEN [ok |-> TRUE, commits |-> <<>>]
    ELSE LET first == CommitLoad(store, parent_hashes[1])
             rest == CommitParents(store, Tail(parent_hashes))
         IN IF first.ok /\ rest.ok
            THEN [ok |-> TRUE, commits |-> <<first.commit>> \o rest.commits]
            ELSE [ok |-> FALSE]

\* a walk that stops at the commit it starts at
NextCommitNone(c, parents) == <<>>

\* the commit the loop goes to: the first parent, or none
NextCommit(c, parents) == IF parents # <<>> THEN <<parents[1]>> ELSE <<>>

\* log::run up to the loop: the ref file of the current branch is read and
\* the commit it names is loaded
LogStart ==
    /\ ~Walking
    /\ last' = IF head_ref_path \notin DOMAIN refs \/ refs[head_ref_path] = <<>>
               THEN [op |-> "log", pc |-> "failed"]
               ELSE LET head_commit == CommitLoad(objects, FromHex(refs[head_ref_path][1]))
                    IN IF ~head_commit.ok THEN [op |-> "log", pc |-> "failed"]
                       ELSE [op |-> "log", pc |-> "walk", commit |-> head_commit.commit,
                             visited |-> <<>>]
    /\ UNCHANGED <<work, dirs, index, objects, refs, HEAD, steps, inflight>>

\* one iteration of the loop of log::run
LogStep ==
    /\ Walking
    /\ \E parents \in {CommitParents(objects, last.commit.parent_hashes)} :
          IF ~parents.ok THEN last' = [op |-> "log", pc |-> "failed"]
          ELSE \E next \in {NextCommit(last.commit, parents.commits)} :
                  last' = IF next # <<>>
                          THEN [op |-> "log", pc |-> "walk", commit |-> next[1],
                                visited |-> Append(last.visited, last.commit.hash)]
                          ELSE [op |-> "log", pc |-> "done",
                                visited |-> Append(last.visited, last.commit.hash)]
    /\ UNCHANGED <<work, dirs, index, objects, refs, HEAD, steps, inflight>>

NextLog ==
    \/ ~Walking /\ \E m \in Messages, t \in Times : Commit(m, t)
    \/ ~Walking /\ \E name \in BranchNames : Branch(name)
    \/ ~Walking /\ \E name \in BranchNames, create \in BOOLEAN : Switch(name, create)
    \/ LogStart
    \/ LogStep

SpecLog == Init /\ [][NextLog]_vars /\ WF_vars(LogStep)

\* the commits of a finished walk: the first is the one the ref names, each
\* next one is the first parent of the one before, the last has no parent,
\* and none is visited twice
WalkIsFirstParentChain ==
    (last.op = "log" /\ last.pc = "done") =>
        LET visited == last.visited
            Loaded(i) == CommitLoad(objects, visited[i]).commit
        IN /\ visited[1] = FromHex(refs[head_ref_path][1])
           /\ \A i \in 1..(Len(visited) - 1) :
                 /\ Loaded(i).parent_hashes # <<>>
                 /\ Loaded(i).parent_hashes[1] = visited[i + 1]
           /\ Loaded(Len(visited)).parent_hashes = <<>>
           /\ \A i, j \in DOMAIN visited : i # j => visited[i] # visited[j]

\* C26: the log walk terminates at the commit with no parent, having visited
\* the first-parent chain of the current branch's commit once each, newest
\* first
C26_LogTerminates == [] WalkIsFirstParentChain /\ (Walking ~> (last.op = "log" /\ last.pc = "done"))

\* a walk that has ended after visiting three commits
C26_Witness == last.op = "log" /\ last.pc = "done" /\ Len(last.visited) = 3

----------------------------------------------------------------------------
(* init: the behaviours start with no metadata directory; HEAD is <<>>     *)
(* while there is none. The other commands need a repository.              *)

Initialized == HEAD # <<>>

\* init that writes the skeleton over a repository that exists
InitRepositoryOverwrites(exists) ==
    [ok |-> TRUE, HEAD |-> <<"ref: refs/heads/", "master">>, index |-> <<>>,
     refs |-> [b \in {"master"} |-> <<>>]]

\* commands::init::run: [ok, HEAD, index, refs]; with a metadata directory
\* in place it returns an error before it creates anything
InitRepository(exists) ==
    IF exists THEN [ok |-> FALSE]
    ELSE [ok |-> TRUE, HEAD |-> <<"ref: refs/heads/", "master">>, index |-> <<>>,
          refs |-> [b \in {"master"} |-> <<>>]]

NoRepository ==
    /\ work = <<>>
    /\ dirs = {}
    /\ index = <<>>
    /\ objects = <<>>
    /\ refs = <<>>
    /\ HEAD = <<>>
    /\ steps = 0
    /\ last = [op |-> "none"]
    /\ inflight = [i \in Procs |-> Idle]

\* init
InitRun ==
    LET r == InitRepository(Initialized) IN
    /\ HEAD' = IF r.ok THEN r.HEAD ELSE HEAD
    /\ index' = IF r.ok THEN r.index ELSE index
    /\ refs' = IF r.ok THEN r.refs ELSE refs
    /\ last' = [op |-> "init", ok |-> r.ok, existed |-> Initialized]
    /\ UNCHANGED <<work, dirs, objects, steps, inflight>>

NextInit ==
    \/ InitRun
    \/ Initialized /\ \E p \in Paths, c \in Contents : WriteFile(p, c)
    \/ Initialized /\ \E p \in Paths \cup Dirs \cup {Root} : Add(p)
    \/ Initialized /\ \E m \in Messages, t \in Times : Commit(m, t)
    \/ Initialized /\ \E b \in BranchNames : Branch(b)

SpecInit == NoRepository /\ [][NextInit]_vars

\* C27: init creates HEAD holding exactly "ref: refs/heads/master", an empty
\* index and an empty master ref as the only ref, and with a metadata
\* directory in place it fails and leaves every repository file as it was
C27_InitSkeleton ==
    [][InitRun =>
          IF Initialized
          THEN ~last'.ok /\ UNCHANGED <<index, objects, refs, HEAD, work, dirs>>
          ELSE /\ last'.ok
               /\ HEAD' = <<"ref: refs/heads/", "master">>
               /\ index' = <<>>
               /\ DOMAIN refs' = {"master"} /\ refs'["master"] = <<>>
               /\ objects' = <<>>]_vars

\* init was run in a repository that has a commit and a staged file
C27_Witness ==
    /\ last.op = "init" /\ last.existed /\ ~last.ok
    /\ index # <<>> /\ refs["master"] # <<>>

\* init, add, commit, branch creation and switch
NextObjects ==
    \/ NextInit
    \/ Initialized /\ \E b \in BranchNames, create \in BOOLEAN : Switch(b, create)

SpecObjects == NoRepository /\ [][NextObjects]_vars

\* C28: through init, add, commit, branch creation and switch an object file
\* that exists stays, with the same bytes, and the bytes of every object file
\* hash to the hash its path is made of
C28_ObjectsImmutable ==
    [][/\ \A hash \in DOMAIN objects :
             hash \in DOMAIN objects' /\ objects'[hash] = objects[hash]
       /\ \A hash \in DOMAIN objects' :
             HashOf(decompress(objects'[hash])) = hash]_vars

\* a switch ran over a store that holds a blob and two commits
C28_Witness ==
    /\ last.op = "switch" /\ last.ok
    /\ \E hash \in DOMAIN objects : "blob" \in DOMAIN decompress(objects[hash])
    /\ Cardinality({hash \in DOMAIN objects : "commit" \in DOMAIN decompress(objects[hash])}) >= 2

----------------------------------------------------------------------------
(* Trees written and read back: the working directory holds files named    *)
(* "a" and U+00E9 and a directory "d", and every commit writes its tree.   *)

TreePaths == {<<97>>, <<233>>, <<100, 99>>}

NextTreeCodec ==
    \/ \E p \in TreePaths : WriteFile(p, <<97>>)
    \/ \E m \in Messages, t \in Times : Commit(m, t)

SpecTreeCodec == Init /\ [][NextTreeCodec]_vars

\* the entries Tree::create_recursive has written for the root directory
WrittenEntries ==
    LET contents == DirectoryContents(Root)
    IN SortedTree([i \in DOMAIN contents |-> TreeEntryCreate(contents[i])]).entries

\* the hashes of the objects the tree of the working directory is made of
WrittenHashes == {HashOf(data) : data \in Range(TreeCreate(<<>>).written)}

Without(store, hash) == [h \in DOMAIN store \ {hash} |-> store[h]]

\* C29: the tree a commit has stored is loaded with the entries written, in
\* their order, with their names, kinds and child hashes, at every level,
\* and with the stored hash; with any of its objects absent the load fails
C29_TreeRoundTrip ==
    (last.op = "commit" /\ last.ok) =>
        LET loaded == TreeLoad(objects, last.commit.tree_hash)
            written == WrittenEntries
        IN /\ loaded.ok
           /\ loaded.tree.hash = last.commit.tree_hash
           /\ Len(loaded.tree.entries) = Len(written)
           /\ \A i \in DOMAIN written :
                 LET entry == loaded.tree.entries[i] IN
                 /\ entry.name = written[i].name
                 /\ ("Blob" \in DOMAIN entry.object) = (written[i].mode = ModeFile)
                 /\ written[i].hash = IF "Blob" \in DOMAIN entry.object
                                      THEN entry.object.Blob.hash
                                      ELSE entry.object.Tree.hash
           /\ entries_flattened(loaded.tree) = [p \in DOMAIN work |-> BlobHashFor(p)]
           /\ \A hash \in WrittenHashes :
                 ~TreeLoad(Without(objects, hash), last.commit.tree_hash).ok

----------------------------------------------------------------------------
(* The metadata directory as an argument of add: the commands run as in    *)
(* Next, and add is also given .rygit and .rygit/HEAD.                     *)

AddPaths == Paths \cup Dirs \cup {Root, rygit_path, head_path}

NextMetadata ==
    \/ \E p \in Paths : WriteFile(p, <<97>>)
    \/ \E p \in AddPaths : Add(p)
    \/ \E m \in Messages, t \in Times : Commit(m, t)
    \/ \E name \in BranchNames, create \in BOOLEAN : Switch(name, create)
    \/ Status

SpecMetadata == Init /\ [][NextMetadata]_vars

InMetadata(p) == StartsWith(p, rygit_path)

\* no entry of the index lies under the metadata directory
IndexOutsideMetadata(lines) == \A i \in DOMAIN lines : ~InMetadata(lines[i][1])

\* no path a status result names lies under the metadata directory
StatusOutsideMetadata(status) ==
    /\ \A i \in DOMAIN status.staged_changes : ~InMetadata(status.staged_changes[i].path)
    /\ \A i \in DOMAIN status.unstaged_changes : ~InMetadata(status.unstaged_changes[i].path)
    /\ \A i \in DOMAIN status.untracked_files : ~InMetadata(status.untracked_files[i])

\* a switch leaves the index and the stored objects as they were and writes
\* no file under the metadata directory
SwitchOutsideMetadata ==
    /\ index' = index
    /\ objects' = objects
    /\ \A p \in DOMAIN work' \cup dirs' : ~InMetadata(p)

\* C30: no command takes the metadata directory for content of the working
\* directory: add of a file or a directory, a path inside .rygit included,
\* leaves no index entry under it, status names no path under it, and
\* switch deletes and overwrites nothing under it
C30_MetadataNotContent ==
    [][/\ last'.op = "add" => IndexOutsideMetadata(index')
       /\ (last'.op = "status" /\ last'.ok) => StatusOutsideMetadata(last')
       /\ last'.op = "switch" => SwitchOutsideMetadata]_vars

----------------------------------------------------------------------------
(* Two commit invocations at the same time: each reads the ref file of the  *)
(* current branch, then writes its commit object and rewrites the ref file; *)
(* nothing is locked.                                                       *)

\* the messages the two invocations commit with
ConcurrentMessages == {<<109>>, <<110>>}

\* a commit that reads the ref file again when it rewrites it
HeadRefContentsReread(i) == refs[head_ref_path]

\* the contents of the ref file as invocation i has read them
HeadRefContents(i) == inflight[i].loaded

\* commit, first half: the head ref is opened and read
CommitRead(i, message) ==
    /\ inflight[i].pc = "idle"
    /\ head_ref_path \in DOMAIN refs
    /\ inflight' = [inflight EXCEPT ![i] = [Idle EXCEPT !.pc = "read", !.path = message,
                                                       !.loaded = refs[head_ref_path],
                                                       !.loaded_at = steps + 1]]
    /\ last' = [op |-> "commit_read", proc |-> i]
    /\ Count
    /\ UNCHANGED <<work, dirs, index, objects, refs, HEAD>>

\* commit, second half: the tree is created, the commit is serialised with
\* the parent read before, its object is written and the ref file rewritten
CommitWrite(i) ==
    /\ inflight[i].pc = "read"
    /\ \E tree \in {TreeCreate(IndexLoad(index))} :
       \E parent_hashes \in {ParentHashes(HeadRefContents(i))} :
       \E serialized_data \in {CommitSerialize(Signature(0), Signature(0), parent_hashes,
                                                tree.hash, inflight[i].path)} :
       \E hash \in {HashOf(serialized_data)} :
          /\ objects' = WriteAlways(WriteAll(objects, tree.written), hash, serialized_data)
          /\ refs' = [refs EXCEPT ![head_ref_path] = RefContents(hash)]
          /\ inflight' = [inflight EXCEPT ![i].pc = "done", ![i].ok = TRUE,
                                            ![i].written_at = steps + 1]
          /\ last' = [op |-> "commit_write", proc |-> i, ok |-> TRUE, hash |-> hash,
                      parent_hashes |-> parent_hashes]
    /\ Count
    /\ UNCHANGED <<work, dirs, index, HEAD>>

NextConcurrentCommit ==
    \/ \E p \in Paths, c \in Contents :
          WriteFile(p, c) /\ \A i \in Procs : inflight[i].pc = "idle"
    \/ \E m \in Messages, t \in Times :
          Commit(m, t) /\ \A i \in Procs : inflight[i].pc = "idle"
    \/ \E i \in Procs, m \in ConcurrentMessages : CommitRead(i, m)
    \/ \E i \in Procs : CommitWrite(i)

SpecConcurrentCommit == Init /\ [][NextConcurrentCommit]_vars

\* the commits reachable by parent links from the commits named
RECURSIVE Reachable(_, _)
Reachable(store, hashes) ==
    IF hashes = {} THEN {}
    ELSE CHOOSE reached \in
            {hashes \cup Reachable(store, UNION {Range(c.commit.parent_hashes) : c \in loaded})
               : loaded \in {{c \in {CommitLoad(store, h) : h \in hashes} : c.ok}}} : TRUE

\* the commits reachable from the ref of branch b
History(b) == Reachable(objects, Range(ParentHashes(refs[b])))

\* invocation j rewrote the ref file after invocation i had read it
WroteRefSinceRead(i, j) ==
    /\ j # i
    /\ inflight[j].pc = "done"
    /\ inflight[i].loaded_at < inflight[j].written_at

\* the commit invocation j has written
WrittenCommit(j) ==
    HashOf(CommitSerialize(Signature(0), Signature(0), ParentHashes(inflight[j].loaded),
                           TreeCreate(<<>>).hash, inflight[j].path))

\* C31: when a commit rewrites the ref file that another commit has
\* rewritten since the first one read it, the ref names the writer's commit,
\* whose parent is the commit it read, and the other invocation's commit, when
\* it is another commit, is not reachable from the ref; nothing in
\* Commit::create keeps the two apart
C31_LostRefUpdate ==
    \A i \in Procs, j \in Procs :
        (last.op = "commit_write" /\ last.proc = i /\ WroteRefSinceRead(i, j)) =>
            /\ refs[head_ref_path] = RefContents(last.hash)
            /\ last.parent_hashes = ParentHashes(inflight[i].loaded)
            /\ inflight[j].loaded = inflight[i].loaded
            /\ WrittenCommit(j) \in DOMAIN objects
            /\ WrittenCommit(j) # last.hash => WrittenCommit(j) \notin History(head_ref_path)

\* both commits were made on top of one parent, they differ, and the first
\* one written is not in the history of the branch
C31_Witness ==
    \E i \in Procs, j \in Procs :
        /\ last.op = "commit_write" /\ last.proc = i /\ WroteRefSinceRead(i, j)
        /\ inflight[i].loaded # <<>>
        /\ WrittenCommit(j) # last.hash
        /\ WrittenCommit(j) \in DOMAIN objects
        /\ WrittenCommit(j) \notin History(head_ref_path)

----------------------------------------------------------------------------
(* Status of a repository in which everything is staged and committed.     *)

\* the index is as add of the repository root leaves it
AllStaged ==
    LET r == IndexAdd(IndexLoad(index), Root) IN r.ok /\ index = IndexWrite(r.files)

\* a status result with nothing in it
Clean(status) ==
    /\ status.ok
    /\ status.staged_changes = <<>>
    /\ status.unstaged_changes = <<>>
    /\ status.untracked_files = <<>>

\* C32: add of the repository root leaves everything staged, a commit keeps
\* it so, and a status run right after that commit, the working directory
\* untouched, succeeds and reports no staged change, no unstaged change and
\* no untracked file, whatever the working directory holds
C32_CleanAfterCommit ==
    /\ []((last.op = "add" /\ last.path = Root /\ last.ok) => AllStaged)
    /\ [][/\ last'.op = "commit" => (index' = index /\ work' = work /\ dirs' = dirs)
          /\ (last'.op = "status" /\ last.op = "commit" /\ last.ok /\ AllStaged)
                => Clean(last')]_vars

----------------------------------------------------------------------------
(* A switch to a branch that does not exist.                               *)

\* C33: a switch that fails because there is no branch of the name given
\* leaves every file and directory of the working directory as it was
C33_FailedSwitchKeepsWork ==
    [][(last'.op = "switch" /\ ~last'.ok /\ last'.name \notin DOMAIN refs')
          => (work' = work /\ dirs' = dirs)]_vars

----------------------------------------------------------------------------
(* Status around a switch.                                                 *)

\* the index holds exactly the files of the commit of the current branch
IndexIsHeadTree ==
    LET tree == BranchTree(refs, head_ref_path) IN
    tree.ok /\ StagedFiles(IndexLoad(index)) = tree.entries

\* the commands, with switch run only while status is clean
NextCleanSwitch ==
    \/ \E p \in Paths, c \in Contents : WriteFile(p, c)
    \/ \E p \in Paths \cup Dirs \cup {Root} : Add(p)
    \/ \E m \in Messages, t \in Times : Commit(m, t)
    \/ \E name \in BranchNames : Branch(name)
    \/ \E name \in BranchNames, create \in BOOLEAN :
          Clean(StatusLoad) /\ Switch(name, create)
    \/ Status

SpecCleanSwitch == Init /\ [][NextCleanSwitch]_vars

\* C34: a successful switch made while status is clean leaves status clean:
\* the index holds the flattened tree of the commit switched to, and status
\* reports no staged change, no unstaged change and no untracked file
C34_CleanAfterSwitch ==
    (last.op = "switch" /\ last.ok) => (IndexIsHeadTree /\ Clean(StatusLoad))

----------------------------------------------------------------------------
(* Creating a branch under a name that is taken.                           *)

\* C35: Branch::create, run by branch <name> or by switch --create <name>,
\* leaves the ref file of a branch that already has that name as it was
C35_CreateKeepsExisting ==
    [][((last'.op = "branch" \/ (last'.op = "switch" /\ last'.switched))
           /\ last'.name \in DOMAIN refs)
          => refs'[last'.name] = refs[last'.name]]_vars

----------------------------------------------------------------------------
(* The history of a branch.                                                *)

\* C36: every command leaves every branch with a ref from which all the
\* commits are reachable that were reachable from it before: the history of
\* a branch only grows
C36_HistoryAppendOnly ==
    [][\A b \in DOMAIN refs :
          /\ b \in DOMAIN refs'
          /\ refs'[b] # refs[b] => History(b) \subseteq History(b)']_vars

----------------------------------------------------------------------------
(* Referential integrity of refs, index and stored objects.                *)

\* the stored objects of one kind: "blob", "tree" or "commit"
StoredOfKind(kind) == {h \in DOMAIN objects : kind \in DOMAIN decompress(objects[h])}

\* C37: every non-empty branch ref names a stored commit, the tree and the
\* parents of every stored commit are stored, every stored tree loads with
\* all its entries, children included, and every index entry names a stored
\* blob
C37_ReferentialIntegrity ==
    /\ \A b \in DOMAIN refs :
          refs[b] # <<>> => FromHex(refs[b][1]) \in StoredOfKind("commit")
    /\ \A h \in StoredOfKind("commit") :
          LET loaded == CommitLoad(objects, h) IN
          /\ loaded.ok
          /\ loaded.commit.tree_hash \in StoredOfKind("tree")
          /\ Range(loaded.commit.parent_hashes) \subseteq StoredOfKind("commit")
    /\ \A h \in StoredOfKind("tree") :
          LET loaded == TreeLoad(objects, h) IN
          /\ loaded.ok
          /\ \A i \in DOMAIN loaded.tree.entries :
                LET object == loaded.tree.entries[i].object IN
                IF "Blob" \in DOMAIN object
                THEN object.Blob.hash \in StoredOfKind("blob")
                ELSE object.Tree.hash \in StoredOfKind("tree")
    /\ \A i \in DOMAIN index : FromHex(index[i][2]) \in StoredOfKind("blob")

\* a branch names a commit that has a parent and a tree with a directory in
\* it, and the index holds an entry
C37_Witness ==
    /\ index # <<>>
    /\ \E b \in DOMAIN refs :
          /\ refs[b] # <<>>
          /\ LET loaded == CommitLoad(objects, FromHex(refs[b][1])) IN
                /\ loaded.ok
                /\ loaded.commit.parent_hashes # <<>>
                /\ LET tree == TreeLoad(objects, loaded.commit.tree_hash) IN
                      /\ tree.ok
                      /\ \E i \in DOMAIN tree.tree.entries :
                            "Tree" \in DOMAIN tree.tree.entries[i].object

----------------------------------------------------------------------------
(* HEAD.                                                                   *)

\* C38: HEAD always reads "ref: refs/heads/<b>" for a branch b whose ref file
\* exists, and a switch that fails, with --create or without, leaves HEAD as
\* it was
C38_HeadNamesBranch ==
    /\ [](HEAD = HeadContents(head_ref_path) /\ head_ref_path \in DOMAIN refs)
    /\ [][(last'.op = "switch" /\ ~last'.ok) => HEAD' = HEAD]_vars

\* a switch to a branch that does not exist has failed
C38_Witness ==
    /\ last.op = "switch" /\ ~last.ok
    /\ last.name \notin DOMAIN refs
    /\ head_ref_path # last.name

----------------------------------------------------------------------------
(* The index file as text: one line "<relative path> <hex hash>" per entry. *)
(* Files are staged whose names are "a" and " ", the latter also in d.      *)

SpacedPaths == {<<97>>, <<32>>, <<100, 32>>}

Slash == [c |-> 47]

\* Path::display of a relative path: the names joined by "/"
PathText(p) == Join([i \in DOMAIN p |-> <<[c |-> p[i]]>>], Slash)

\* PathBuf::join of the repository root and a relative path: its names
TextPath(text) ==
    LET names == SelectSeq(Split(text, Slash), LAMBDA name : name # <<>>)
    IN [i \in DOMAIN names |-> NameOf(Unchars(names[i]))]

\* Index::write: the text of the index file for the lines written
IndexFileText(lines) ==
    Concat([i \in DOMAIN lines |-> PathText(lines[i][1]) \o <<SP, lines[i][2], NL>>])

\* Index::load on one line: the line is split at every space, the first
\* part is the path, the second must be the hex of a hash
IndexParseLine(line) ==
    LET parts == Split(line, SP) IN
    IF Len(parts) < 2 THEN [ok |-> FALSE]
    ELSE IF Len(parts[2]) # 1 THEN [ok |-> FALSE]
    ELSE IF "hex" \notin DOMAIN parts[2][1] THEN [ok |-> FALSE]
    ELSE [ok |-> TRUE, file |-> [path |-> TextPath(parts[1]), hash |-> FromHex(parts[2][1])]]

\* Index::load: [ok, files]; one line that does not parse fails the load
IndexParse(text) ==
    LET parsed == [i \in DOMAIN Lines(text) |-> IndexParseLine(Lines(text)[i])] IN
    IF \E i \in DOMAIN parsed : ~parsed[i].ok THEN [ok |-> FALSE]
    ELSE [ok |-> TRUE, files |-> [i \in DOMAIN parsed |-> parsed[i].file]]

\* add <p> with the index read from the text of its file: a load that fails
\* ends the command
AddFromFile(p) ==
    \E loaded \in {IndexParse(IndexFileText(index))} :
       IF ~loaded.ok
       THEN /\ last' = [op |-> "add", path |-> p, ok |-> FALSE, loaded |-> FALSE]
            /\ Tick
            /\ UNCHANGED <<work, dirs, index, objects, refs, HEAD>>
       ELSE \E r \in {IndexAdd(loaded.files, p)} :
            /\ index' = IF r.ok THEN IndexWrite(r.files) ELSE index
            /\ objects' = WriteAll(objects, r.blobs)
            /\ last' = [op |-> "add", path |-> p, ok |-> r.ok, loaded |-> TRUE,
                        files |-> r.files]
            /\ Tick
            /\ UNCHANGED <<work, dirs, refs, HEAD>>

NextIndexCodec ==
    \/ \E p \in SpacedPaths : WriteFile(p, <<97>>)
    \/ \E p \in SpacedPaths \cup {Root} : AddFromFile(p)

SpecIndexCodec == Init /\ [][NextIndexCodec]_vars

\* C39: Index::load of the file a successful add has written returns the
\* entries that were in memory when it was written, paths, hashes and order,
\* whatever the names of the files staged, a name with a space included
C39_IndexRoundTrip ==
    (last.op = "add" /\ last.ok) =>
        LET loaded == IndexParse(IndexFileText(index)) IN
        loaded.ok /\ loaded.files = last.files

----------------------------------------------------------------------------
(* Object files seen by another invocation while they are written.         *)

\* the object file of hash h holds its whole compressed payload
Complete(h) == objects[h] = Pieces(h.sha1)

\* C40: an object file that exists holds its complete payload, so that an
\* invocation that finds it there and skips its own write, or loads it,
\* never has a partly written object
C40_NoPartialObject ==
    /\ \A h \in DOMAIN objects : Complete(h)
    /\ \A i \in Procs :
          (inflight[i].pc = "done" /\ inflight[i].skipped)
              => Complete(HashOf(inflight[i].data))

====
